---- MODULE Spec2Model ----
(***************************************************************************)
(* Model of the hubble-install provisioning orchestrator: the three        *)
(* platform installers (macOS, Linux, Windows), the process environment    *)
(* they read and mutate (search path, files on disk) and the orchestrator  *)
(* in main() that drives them.                                             *)
(*                                                                         *)
(* A directory is a tuple of path components, PATH is a sequence of        *)
(* directories, the file system is the set of <<directory, command>>       *)
(* pairs that exist.  An error is a sequence of layers, outermost first    *)
(* (fmt.Errorf with %w puts a layer in front of the wrapped error); each   *)
(* layer carries its Go type and its text as a sequence of words.  The nil *)
(* error is the empty sequence.                                            *)
(***************************************************************************)
EXTENDS Integers, Sequences, FiniteSets, TLC

VARIABLES
  platform,      \* runtime.GOOS
  pkgManager,    \* LinuxInstaller.pkgManager, detected at construction
  PATH,          \* os.Getenv("PATH") as a sequence of directories
  fs,            \* files that exist: set of <<directory, command>>
  pmFunctional,  \* would "<package manager> --version" exit 0
  isAdmin,       \* would "net session" exit 0 (Windows)
  caller,        \* "api": any user of the Installer interface; "main": main()
  requiredDeps,  \* the dependency list handed to the installer
  board,         \* index into AvailableBoards (main only, 0 otherwise)
  mainPc,        \* position of main()
  exitCode,      \* os.Exit code, -1 while running
  history,       \* installer methods invoked so far, in order
  call,          \* the installer call in progress or last returned
  trace,         \* subprocesses spawned by that call, in order
  workers,       \* goroutines of DarwinInstaller.InstallDependencies
  errChan,       \* errChan of DarwinInstaller.InstallDependencies
  wg             \* sync.WaitGroup counter

vars ==
  <<platform, pkgManager, PATH, fs, pmFunctional, isAdmin, caller,
    requiredDeps, board, mainPc, exitCode, history, call, trace,
    workers, errChan, wg>>

envVars ==
  <<platform, pkgManager, isAdmin, caller, requiredDeps, board>>

(***************************************************************************)
(* Bounds of the model.                                                    *)
(***************************************************************************)
MaxDeps ==
  2

(***************************************************************************)
(* Names.                                                                  *)
(***************************************************************************)
DepNames ==
  {"uv", "nrfutil", "segger-jlink", "other"}

IsInjective(q) ==
  \A i, j \in DOMAIN q : q[i] = q[j] => i = j

DepLists ==
  {q \in UNION {[1..n -> DepNames] : n \in 0..MaxDeps} : IsInjective(q)}

UsrBin ==
  <<"usr", "bin">>

BrewArmBin ==
  <<"opt", "homebrew", "bin">>

BrewIntelBin ==
  <<"usr", "local", "bin">>

LocalBin ==
  <<"home", ".local", "bin">>

CargoBin ==
  <<"home", ".cargo", "bin">>

System32 ==
  <<"C:", "Windows", "System32">>

ChocoInstall ==
  <<"C:", "ProgramData", "chocolatey">>

ChocoBin ==
  ChocoInstall \o <<"bin">>

UvToolsDir ==
  ChocoInstall \o <<"lib", "uv", "tools">>

NrfDir ==
  <<"C:", "Users", "u", "AppData", "Local", "hubble", "nrfutil">>

(***************************************************************************)
(* Errors.                                                                 *)
(***************************************************************************)
Nil ==
  <<>>

NewError(words) ==
  <<[type |-> "errorString", text |-> words]>>

WrapError(words, err) ==
  <<[type |-> "wrapError", text |-> words]>> \o err

ExitError ==
  <<[type |-> "ExitError", text |-> <<"exit", "status", "1">>]>>

ExitErrorOf(code) ==
  <<[type |-> "ExitError", text |-> <<"exit", "status", ToString(code)>>]>>

RECURSIVE ErrorText(_)
ErrorText(err) ==
  IF err = <<>> THEN <<>> ELSE Head(err).text \o ErrorText(Tail(err))

Range(q) ==
  {q[i] : i \in DOMAIN q}

IsInfix(s, t) ==
  \E k \in 0..(Len(t) - Len(s)) : SubSeq(t, k + 1, k + Len(s)) = s

(***************************************************************************)
(* Process environment.                                                    *)
(***************************************************************************)
LookPath(cmd, path, files) ==
  \E i \in 1..Len(path) : <<path[i], cmd>> \in files

Stat(dir, cmd, files) ==
  <<dir, cmd>> \in files

commandExistsNever(cmd, path, files) ==
  FALSE

commandExists(cmd, path, files) ==
  LookPath(cmd, path, files)

Contains(path, dir) ==
  \E i \in 1..Len(path) : IsInfix(dir, path[i])

Prepend(dir, path) ==
  <<dir>> \o path

(***************************************************************************)
(* CheckPrerequisites                                                      *)
(***************************************************************************)
MissingDependency(name) ==
  [Name |-> name, Status |-> "Not installed"]

RECURSIVE DarwinCheckLoopStopAtFirst(_, _, _, _)
DarwinCheckLoopStopAtFirst(deps, i, path, files) ==
  IF i > Len(deps) THEN <<>>
  ELSE LET dep == deps[i]
           bin == IF dep = "segger-jlink" THEN "JLinkExe" ELSE dep
       IN IF dep \in {"uv", "nrfutil", "segger-jlink"}
             /\ ~commandExists(bin, path, files)
          THEN <<MissingDependency(dep)>>
          ELSE DarwinCheckLoopStopAtFirst(deps, i + 1, path, files)

RECURSIVE DarwinCheckLoop(_, _, _, _)
DarwinCheckLoop(deps, i, path, files) ==
  IF i > Len(deps) THEN <<>>
  ELSE LET dep == deps[i]
           bin == IF dep = "segger-jlink" THEN "JLinkExe" ELSE dep
           here == IF dep \in {"uv", "nrfutil", "segger-jlink"}
                      /\ ~commandExists(bin, path, files)
                   THEN <<MissingDependency(dep)>>
                   ELSE <<>>
       IN here \o DarwinCheckLoop(deps, i + 1, path, files)

DarwinCheckPrerequisites(deps, path, files) ==
  [missing |-> (IF ~commandExists("brew", path, files)
                THEN <<MissingDependency("Homebrew")>> ELSE <<>>)
               \o DarwinCheckLoop(deps, 1, path, files),
   err |-> Nil, ui |-> <<>>, PATH |-> path]

JLinkErrorText ==
  <<"J-Link", "must", "be", "installed", "before", "running", "this",
    "installer">>

UnsupportedDistroText ==
  <<"unsupported", "Linux", "distribution", "-", "only", "apt,", "dnf,",
    "and", "yum", "are", "supported">>

DpkgCommand ==
  <<"sudo", "dpkg", "-i", "JLink_Linux_*.deb">>

DnfCommand ==
  <<"sudo", "dnf", "install", "JLink_Linux_*.rpm">>

YumCommand ==
  <<"sudo", "yum", "install", "JLink_Linux_*.rpm">>

TarCommand ==
  <<"tar", "xzf", "JLink_Linux_*.tgz", "-C", "~/opt/SEGGER">>

CpRulesCommand ==
  <<"sudo", "cp", "~/opt/SEGGER/JLink*/99-jlink.rules",
    "/etc/udev/rules.d/">>

JLinkRemediationDpkgOnly(pm) ==
  <<<<"SEGGER", "J-Link", "was", "not", "found">>, DpkgCommand>>

JLinkRemediation(pm) ==
  <<<<"SEGGER", "J-Link", "was", "not", "found">>,
    <<"Due", "to", "license", "requirements,", "it", "must", "be",
      "downloaded", "manually", "from:">>,
    <<"https://www.segger.com/downloads/jlink/">>,
    <<"After", "downloading,", "install", "with:">>>>
  \o (CASE pm = "apt" -> <<DpkgCommand>>
        [] pm = "dnf" -> <<DnfCommand>>
        [] pm = "yum" -> <<YumCommand>>
        [] OTHER -> <<TarCommand, CpRulesCommand>>)

RECURSIVE LinuxCheckLoopReportsJLink(_, _, _, _, _, _)
LinuxCheckLoopReportsJLink(deps, i, missing, path, files, pm) ==
  IF i > Len(deps)
  THEN [missing |-> missing, err |-> Nil, ui |-> <<>>, PATH |-> path]
  ELSE LET dep == deps[i]
           bin == IF dep = "segger-jlink" THEN "JLinkExe" ELSE dep
       IN LinuxCheckLoopReportsJLink(deps, i + 1,
            IF dep \in {"uv", "segger-jlink"}
               /\ ~commandExists(bin, path, files)
            THEN Append(missing, MissingDependency(dep)) ELSE missing,
            path, files, pm)

RECURSIVE LinuxCheckLoop(_, _, _, _, _, _)
LinuxCheckLoop(deps, i, missing, path, files, pm) ==
  IF i > Len(deps)
  THEN [missing |-> missing, err |-> Nil, ui |-> <<>>, PATH |-> path]
  ELSE LET dep == deps[i] IN
       CASE dep = "uv" ->
              LinuxCheckLoop(deps, i + 1,
                IF ~commandExists("uv", path, files)
                THEN Append(missing, MissingDependency("uv")) ELSE missing,
                path, files, pm)
         [] dep = "segger-jlink" ->
              IF ~commandExists("JLinkExe", path, files)
              THEN [missing |-> <<>>, err |-> NewError(JLinkErrorText),
                    ui |-> JLinkRemediation(pm), PATH |-> path]
              ELSE LinuxCheckLoop(deps, i + 1, missing, path, files, pm)
         [] OTHER -> LinuxCheckLoop(deps, i + 1, missing, path, files, pm)

LinuxCheckPrerequisitesAnyDistro(deps, path, files, pm) ==
  LinuxCheckLoop(deps, 1, <<>>, path, files, pm)

LinuxCheckPrerequisites(deps, path, files, pm) ==
  IF pm = "unknown"
  THEN [missing |-> <<>>, err |-> NewError(UnsupportedDistroText),
        ui |-> <<>>, PATH |-> path]
  ELSE LinuxCheckLoop(deps, 1, <<>>, path, files, pm)

ensureNRFUtilPath(path) ==
  IF ~Contains(path, NrfDir) THEN Prepend(NrfDir, path) ELSE path

nrfutilInstalled(path, files) ==
  IF commandExists("nrfutil", path, files)
  THEN [found |-> TRUE, PATH |-> path]
  ELSE IF Stat(NrfDir, "nrfutil", files)
       THEN [found |-> TRUE, PATH |-> ensureNRFUtilPath(path)]
       ELSE [found |-> FALSE, PATH |-> path]

RECURSIVE WindowsCheckLoop(_, _, _, _, _)
WindowsCheckLoop(deps, i, missing, path, files) ==
  IF i > Len(deps)
  THEN [missing |-> missing, err |-> Nil, ui |-> <<>>, PATH |-> path]
  ELSE LET dep == deps[i] IN
       CASE dep = "uv" ->
              WindowsCheckLoop(deps, i + 1,
                IF ~commandExists("uv", path, files)
                THEN Append(missing, MissingDependency("uv")) ELSE missing,
                path, files)
         [] dep = "nrfutil" ->
              LET r == nrfutilInstalled(path, files) IN
              WindowsCheckLoop(deps, i + 1,
                IF ~r.found
                THEN Append(missing, MissingDependency("nrfutil"))
                ELSE missing,
                r.PATH, files)
         [] OTHER -> WindowsCheckLoop(deps, i + 1, missing, path, files)

WindowsCheckPrerequisites(deps, path, files) ==
  WindowsCheckLoop(deps, 1,
    IF ~commandExists("choco", path, files)
    THEN <<MissingDependency("Chocolatey")>> ELSE <<>>,
    path, files)

(***************************************************************************)
(* windows.go holds a second, older definition of WindowsInstaller (from   *)
(* line 743 on); platform "windows2" is a build that uses it.              *)
(***************************************************************************)
JLinkCommands ==
  {"JLink", "JLinkExe", "nrfjprog"}

RECURSIVE Windows2CheckLoop(_, _, _, _, _)
Windows2CheckLoop(deps, i, missing, path, files) ==
  IF i > Len(deps) THEN missing
  ELSE LET dep == deps[i]
           absent ==
             CASE dep = "uv" -> ~commandExists("uv", path, files)
               [] dep = "segger-jlink" ->
                    \A c \in JLinkCommands : ~commandExists(c, path, files)
               [] OTHER -> FALSE
       IN Windows2CheckLoop(deps, i + 1,
            IF absent THEN Append(missing, MissingDependency(dep))
            ELSE missing,
            path, files)

Windows2CheckPrerequisites(deps, path, files) ==
  [missing |-> Windows2CheckLoop(deps, 1,
                 IF ~commandExists("choco", path, files)
                 THEN <<MissingDependency("Chocolatey")>> ELSE <<>>,
                 path, files),
   err |-> Nil, ui |-> <<>>, PATH |-> path]

IsWindows(plat) ==
  plat \in {"windows", "windows2"}

CheckPrerequisitesOf(plat, deps, path, files, pm) ==
  CASE plat = "darwin" -> DarwinCheckPrerequisites(deps, path, files)
    [] plat = "linux" -> LinuxCheckPrerequisites(deps, path, files, pm)
    [] plat = "windows2" -> Windows2CheckPrerequisites(deps, path, files)
    [] OTHER -> WindowsCheckPrerequisites(deps, path, files)

(***************************************************************************)
(* Subprocess events of the calling goroutine: a cmd.Run() and its result. *)
(***************************************************************************)
Run(cmd, ok) ==
  [cmd |-> cmd, ok |-> ok, exit |-> IF ok THEN 0 ELSE 1]

RunExit(cmd, exit) ==
  [cmd |-> cmd, ok |-> exit = 0, exit |-> exit]

DirExists(dir, files) ==
  \E f \in files : f[1] = dir

(***************************************************************************)
(* InstallPackageManager.  o is what the outside world answers: the exit   *)
(* status of each subprocess and where the installed binary lands.         *)
(***************************************************************************)
ensureSudoAccess(o) ==
  IF o.sudoN
  THEN [err |-> Nil, trace |-> <<Run(<<"sudo", "-n", "true">>, TRUE)>>]
  ELSE IF o.sudoV
       THEN [err |-> Nil,
             trace |-> <<Run(<<"sudo", "-n", "true">>, FALSE), Run(<<"sudo", "-v">>, TRUE)>>]
       ELSE [err |-> WrapError(<<"failed", "to", "obtain", "sudo",
                                 "access:">>, ExitError),
             trace |-> <<Run(<<"sudo", "-n", "true">>, FALSE), Run(<<"sudo", "-v">>, FALSE)>>]

setupBrewPath(path, files) ==
  IF Stat(BrewArmBin, "brew", files)
  THEN [err |-> Nil,
        PATH |-> IF ~Contains(path, BrewArmBin)
                 THEN Prepend(BrewArmBin, path) ELSE path]
  ELSE IF Stat(BrewIntelBin, "brew", files)
       THEN [err |-> Nil,
             PATH |-> IF ~Contains(path, BrewIntelBin)
                      THEN Prepend(BrewIntelBin, path) ELSE path]
       ELSE [err |-> NewError(<<"brew", "not", "found", "in", "expected",
                                "locations">>),
             PATH |-> path]

DarwinInstallPackageManager(path, files, functional, o) ==
  IF commandExists("brew", path, files)
  THEN [ret |-> Nil, PATH |-> path, fs |-> files,
        pmFunctional |-> functional, trace |-> <<>>]
  ELSE
  LET sudo == ensureSudoAccess(o) IN
  IF sudo.err # Nil
  THEN [ret |-> sudo.err, PATH |-> path, fs |-> files,
        pmFunctional |-> functional, trace |-> sudo.trace]
  ELSE
  LET t1 == Append(sudo.trace, Run(<<"brew", "install.sh">>, o.script)) IN
  IF ~o.script
  THEN [ret |-> WrapError(<<"failed", "to", "install", "Homebrew:">>,
                          ExitError),
        PATH |-> path, fs |-> files, pmFunctional |-> functional,
        trace |-> t1]
  ELSE
  LET files1 == IF o.lands = <<>> THEN files
                ELSE files \cup {<<o.lands, "brew">>}
      works == o.version
      setup == setupBrewPath(path, files1)
  IN
  IF setup.err # Nil
  THEN [ret |-> WrapError(<<"homebrew", "installation", "completed", "but",
                            "could", "not", "find", "brew", "binary:">>,
                          setup.err),
        PATH |-> setup.PATH, fs |-> files1, pmFunctional |-> works,
        trace |-> t1]
  ELSE IF ~commandExists("brew", setup.PATH, files1)
  THEN [ret |-> NewError(<<"homebrew", "installation", "completed", "but",
                           "brew", "command", "not", "found", "in", "PATH">>),
        PATH |-> setup.PATH, fs |-> files1, pmFunctional |-> works,
        trace |-> t1]
  ELSE
  LET t2 == Append(t1, Run(<<"brew", "--version">>, works)) IN
  IF ~works
  THEN [ret |-> WrapError(<<"homebrew", "installed", "but", "not",
                            "functioning", "correctly:">>, ExitError),
        PATH |-> setup.PATH, fs |-> files1, pmFunctional |-> works,
        trace |-> t2]
  ELSE [ret |-> Nil, PATH |-> setup.PATH, fs |-> files1,
        pmFunctional |-> works, trace |-> t2]

LinuxInstallPackageManager(path, files, functional) ==
  [ret |-> Nil, PATH |-> path, fs |-> files, pmFunctional |-> functional,
   trace |-> <<>>]

ensureAdminAccessIgnored(admin) ==
  [err |-> Nil, trace |-> <<Run(<<"net", "session">>, admin)>>]

ensureAdminAccess(admin) ==
  IF ~admin
  THEN [err |-> NewError(<<"administrator", "privileges", "required">>),
        trace |-> <<Run(<<"net", "session">>, FALSE)>>]
  ELSE [err |-> Nil, trace |-> <<Run(<<"net", "session">>, TRUE)>>]

setupChocoPath(path, files) ==
  IF ~DirExists(ChocoBin, files)
  THEN [err |-> NewError(<<"choco", "not", "found", "in", "expected",
                           "location:">>),
        PATH |-> path]
  ELSE [err |-> Nil,
        PATH |-> IF ~Contains(path, ChocoBin)
                 THEN Prepend(ChocoBin, path) ELSE path]

WindowsInstallPackageManager(path, files, functional, admin, o) ==
  IF commandExists("choco", path, files)
  THEN [ret |-> Nil, PATH |-> path, fs |-> files,
        pmFunctional |-> functional, trace |-> <<>>]
  ELSE
  LET adm == ensureAdminAccess(admin) IN
  IF adm.err # Nil
  THEN [ret |-> adm.err, PATH |-> path, fs |-> files,
        pmFunctional |-> functional, trace |-> adm.trace]
  ELSE
  LET t1 == Append(adm.trace, Run(<<"choco", "install.ps1">>, o.script)) IN
  IF ~o.script
  THEN [ret |-> WrapError(<<"failed", "to", "install", "Chocolatey:">>,
                          ExitError),
        PATH |-> path, fs |-> files, pmFunctional |-> functional,
        trace |-> t1]
  ELSE
  LET files1 == IF o.lands = <<>> THEN files
                ELSE files \cup {<<ChocoBin, "choco">>}
      works == o.version
      setup == setupChocoPath(path, files1)
  IN
  IF setup.err # Nil
  THEN [ret |-> WrapError(<<"chocolatey", "installation", "completed",
                            "but", "could", "not", "find", "choco",
                            "binary:">>, setup.err),
        PATH |-> setup.PATH, fs |-> files1, pmFunctional |-> works,
        trace |-> t1]
  ELSE IF ~commandExists("choco", setup.PATH, files1)
  THEN [ret |-> NewError(<<"chocolatey", "installation", "completed", "but",
                           "choco", "command", "not", "found", "in",
                           "PATH">>),
        PATH |-> setup.PATH, fs |-> files1, pmFunctional |-> works,
        trace |-> t1]
  ELSE
  LET t2 == Append(t1, Run(<<"choco", "--version">>, works)) IN
  IF ~works
  THEN [ret |-> WrapError(<<"chocolatey", "installed", "but", "not",
                            "functioning", "correctly:">>, ExitError),
        PATH |-> setup.PATH, fs |-> files1, pmFunctional |-> works,
        trace |-> t2]
  ELSE [ret |-> Nil, PATH |-> setup.PATH, fs |-> files1,
        pmFunctional |-> works, trace |-> t2]

PmAnswers(dirs) ==
  {o \in [sudoN : BOOLEAN, sudoV : BOOLEAN, script : BOOLEAN,
          lands : {<<>>} \cup dirs, version : BOOLEAN] :
     /\ o.sudoN => o.sudoV
     /\ ~o.sudoV => ~o.script
     /\ ~o.script => o.lands = <<>>
     /\ o.lands = <<>> => ~o.version}

PmOracles(plat) ==
  CASE plat = "darwin" -> PmAnswers({BrewArmBin, BrewIntelBin})
    [] IsWindows(plat) -> {o \in PmAnswers({ChocoBin}) : o.sudoN}
    [] OTHER -> {o \in PmAnswers({}) : o.sudoN /\ o.script}

InstallPackageManagerOf(plat, path, files, functional, admin, o) ==
  CASE plat = "darwin" ->
         DarwinInstallPackageManager(path, files, functional, o)
    [] plat = "linux" -> LinuxInstallPackageManager(path, files, functional)
    [] OTHER ->
         WindowsInstallPackageManager(path, files, functional, admin, o)


(***************************************************************************)
(* InstallDependencies on Linux and Windows (sequential).  o[i] is what    *)
(* the outside world answers for the install of deps[i].                   *)
(***************************************************************************)
LinuxDepOracles ==
  [ok : BOOLEAN, lands : {CargoBin, LocalBin}]

installUV(path, files, oi) ==
  IF ~oi.ok
  THEN [err |-> WrapError(<<"uv", "installation", "failed:">>, ExitError),
        PATH |-> path, fs |-> files,
        trace |-> <<Run(<<"curl", "astral.sh/uv/install.sh", "|", "sh">>, FALSE)>>]
  ELSE [err |-> Nil,
        PATH |-> IF ~Contains(path, CargoBin)
                 THEN Prepend(CargoBin, path) ELSE path,
        fs |-> files \cup {<<oi.lands, "uv">>},
        trace |-> <<Run(<<"curl", "astral.sh/uv/install.sh", "|", "sh">>, TRUE)>>]

RECURSIVE LinuxInstallLoop(_, _, _, _, _, _)
LinuxInstallLoop(deps, i, path, files, tr, o) ==
  IF i > Len(deps)
  THEN [ret |-> Nil, PATH |-> path, fs |-> files, trace |-> tr]
  ELSE IF deps[i] = "uv" /\ ~commandExists("uv", path, files)
  THEN LET r == installUV(path, files, o[i]) IN
       IF r.err # Nil
       THEN [ret |-> WrapError(<<"failed", "to", "install", "uv:">>, r.err),
             PATH |-> r.PATH, fs |-> r.fs, trace |-> tr \o r.trace]
       ELSE LinuxInstallLoop(deps, i + 1, r.PATH, r.fs, tr \o r.trace, o)
  ELSE LinuxInstallLoop(deps, i + 1, path, files, tr, o)

LinuxInstallDependencies(deps, path, files, functional, o) ==
  LET r == LinuxInstallLoop(deps, 1, path, files, <<>>, o) IN
  [ret |-> r.ret, PATH |-> r.PATH, fs |-> r.fs,
   pmFunctional |-> functional, trace |-> r.trace]

RebootExitCode ==
  3010

WindowsDepOracles ==
  {o \in [exit : {0, 1, RebootExitCode}, download : BOOLEAN] :
     ~o.download => o.exit = 0}

RebootRequiredError(pkg) ==
  <<[type |-> "RebootRequiredError",
     text |-> <<"installation", "of", pkg, "requires", "a", "system",
                "reboot">>]>>

runChocoInstallIgnoresFailure(pkg, files, exit) ==
  IF ~Stat(ChocoBin, "choco", files)
  THEN [err |-> <<[type |-> "PathError",
                   text |-> <<"file", "does", "not", "exist">>]>>,
        trace |-> <<>>]
  ELSE [err |-> Nil, trace |-> <<RunExit(<<"choco", "install", pkg>>, exit)>>]

runChocoInstall(pkg, files, exit) ==
  IF ~Stat(ChocoBin, "choco", files)
  THEN [err |-> <<[type |-> "PathError",
                   text |-> <<"file", "does", "not", "exist">>]>>,
        trace |-> <<>>]
  ELSE IF exit = 0
  THEN [err |-> Nil, trace |-> <<Run(<<"choco", "install", pkg>>, TRUE)>>]
  ELSE IF exit = RebootExitCode
  THEN [err |-> RebootRequiredError(pkg),
        trace |-> <<RunExit(<<"choco", "install", pkg>>, exit)>>]
  ELSE [err |-> ExitError,
        trace |-> <<RunExit(<<"choco", "install", pkg>>, exit)>>]

setupUVPath(path, files) ==
  LET p1 == IF Stat(UvToolsDir, "uv", files) /\ ~Contains(path, UvToolsDir)
            THEN Prepend(UvToolsDir, path) ELSE path
  IN IF ~Contains(p1, ChocoBin) THEN Prepend(ChocoBin, p1) ELSE p1

installNRFUtil(path, files, oi) ==
  LET files1 == files \cup {<<NrfDir, "nrfutil">>} IN
  IF ~oi.download
  THEN [err |-> WrapError(<<"failed", "to", "download", "nrfutil:">>,
                          NewError(<<"failed", "to", "download:">>)),
        PATH |-> path, fs |-> files1,
        trace |-> <<Run(<<"GET", "nrfutil.exe">>, FALSE)>>]
  ELSE IF oi.exit # 0
  THEN [err |-> WrapError(<<"nrfutil", "download", "completed", "but",
                            "binary", "did", "not", "run:">>, ExitError),
        PATH |-> ensureNRFUtilPath(path), fs |-> files1,
        trace |-> <<Run(<<"GET", "nrfutil.exe">>, TRUE),
                    Run(<<"nrfutil", "--version">>, FALSE)>>]
  ELSE [err |-> Nil, PATH |-> ensureNRFUtilPath(path), fs |-> files1,
        trace |-> <<Run(<<"GET", "nrfutil.exe">>, TRUE),
                    Run(<<"nrfutil", "--version">>, TRUE)>>]

RECURSIVE WindowsInstallLoop(_, _, _, _, _, _)
WindowsInstallLoop(deps, i, path, files, tr, o) ==
  IF i > Len(deps)
  THEN [ret |-> Nil, PATH |-> path, fs |-> files, trace |-> tr]
  ELSE
  CASE deps[i] = "uv" ->
         IF commandExists("uv", path, files)
         THEN WindowsInstallLoop(deps, i + 1, path, files, tr, o)
         ELSE LET r == runChocoInstall("uv", files, o[i].exit)
                  installed == r.trace # <<>>
                               /\ o[i].exit \in {0, RebootExitCode}
                  files1 == IF installed
                            THEN files \cup {<<ChocoBin, "uv">>,
                                             <<UvToolsDir, "uv">>}
                            ELSE files
              IN IF r.err # Nil
                 THEN [ret |-> WrapError(<<"failed", "to", "install", "uv:">>,
                                         r.err),
                       PATH |-> path, fs |-> files1, trace |-> tr \o r.trace]
                 ELSE WindowsInstallLoop(deps, i + 1,
                        setupUVPath(path, files1), files1, tr \o r.trace, o)
    [] deps[i] = "nrfutil" ->
         LET n == nrfutilInstalled(path, files) IN
         IF n.found
         THEN WindowsInstallLoop(deps, i + 1, n.PATH, files, tr, o)
         ELSE LET r == installNRFUtil(n.PATH, files, o[i]) IN
              IF r.err # Nil
              THEN [ret |-> WrapError(<<"failed", "to", "install",
                                        "nrfutil:">>, r.err),
                    PATH |-> r.PATH, fs |-> r.fs, trace |-> tr \o r.trace]
              ELSE WindowsInstallLoop(deps, i + 1, r.PATH, r.fs,
                                      tr \o r.trace, o)
    [] OTHER -> WindowsInstallLoop(deps, i + 1, path, files, tr, o)

WindowsInstallDependencies(deps, path, files, functional, admin, opm, o) ==
  LET pm == IF ~commandExists("choco", path, files)
            THEN WindowsInstallPackageManager(path, files, functional,
                                              admin, opm)
            ELSE [ret |-> Nil, PATH |-> path, fs |-> files,
                  pmFunctional |-> functional, trace |-> <<>>]
  IN
  IF pm.ret # Nil THEN pm
  ELSE
  LET adm == ensureAdminAccess(admin) IN
  IF adm.err # Nil
  THEN [ret |-> adm.err, PATH |-> pm.PATH, fs |-> pm.fs,
        pmFunctional |-> pm.pmFunctional, trace |-> pm.trace \o adm.trace]
  ELSE
  LET r == WindowsInstallLoop(deps, 1, pm.PATH, pm.fs,
                              pm.trace \o adm.trace, o)
  IN [ret |-> r.ret, PATH |-> r.PATH, fs |-> r.fs,
      pmFunctional |-> pm.pmFunctional, trace |-> r.trace]


runChocoInstall2(pkg, files, exit) ==
  IF ~Stat(ChocoBin, "choco", files)
  THEN [err |-> <<[type |-> "PathError",
                   text |-> <<"file", "does", "not", "exist">>]>>,
        trace |-> <<>>]
  ELSE IF exit = 0
  THEN [err |-> Nil, trace |-> <<Run(<<"choco", "install", pkg>>, TRUE)>>]
  ELSE [err |-> ExitErrorOf(exit),
        trace |-> <<RunExit(<<"choco", "install", pkg>>, exit)>>]

RECURSIVE Windows2InstallLoop(_, _, _, _, _, _)
Windows2InstallLoop(deps, i, path, files, tr, o) ==
  IF i > Len(deps)
  THEN [ret |-> Nil, PATH |-> path, fs |-> files, trace |-> tr]
  ELSE
  CASE deps[i] = "uv" ->
         IF commandExists("uv", path, files)
         THEN Windows2InstallLoop(deps, i + 1, path, files, tr, o)
         ELSE LET r == runChocoInstall2("uv", files, o[i].exit)
                  installed == r.trace # <<>>
                               /\ o[i].exit \in {0, RebootExitCode}
                  files1 == IF installed
                            THEN files \cup {<<ChocoBin, "uv">>,
                                             <<UvToolsDir, "uv">>}
                            ELSE files
              IN IF r.err # Nil
                 THEN [ret |-> WrapError(<<"failed", "to", "install", "uv:">>,
                                         r.err),
                       PATH |-> path, fs |-> files1, trace |-> tr \o r.trace]
                 ELSE Windows2InstallLoop(deps, i + 1,
                        setupUVPath(path, files1), files1, tr \o r.trace, o)
    [] deps[i] = "segger-jlink" ->
         IF \E c \in JLinkCommands : commandExists(c, path, files)
         THEN Windows2InstallLoop(deps, i + 1, path, files, tr, o)
         ELSE LET r == runChocoInstall2("nrfjprog", files, o[i].exit)
                  installed == r.trace # <<>>
                               /\ o[i].exit \in {0, RebootExitCode}
                  files1 == IF installed
                            THEN files \cup {<<ChocoBin, "nrfjprog">>}
                            ELSE files
              IN IF r.err # Nil
                 THEN [ret |-> WrapError(<<"failed", "to", "install",
                                           "nrfjprog:">>, r.err),
                       PATH |-> path, fs |-> files1, trace |-> tr \o r.trace]
                 ELSE Windows2InstallLoop(deps, i + 1, path, files1,
                                          tr \o r.trace, o)
    [] OTHER -> Windows2InstallLoop(deps, i + 1, path, files, tr, o)

Windows2InstallDependencies(deps, path, files, functional, admin, opm, o) ==
  LET pm == IF ~commandExists("choco", path, files)
            THEN WindowsInstallPackageManager(path, files, functional,
                                              admin, opm)
            ELSE [ret |-> Nil, PATH |-> path, fs |-> files,
                  pmFunctional |-> functional, trace |-> <<>>]
  IN
  IF pm.ret # Nil THEN pm
  ELSE
  LET adm == ensureAdminAccess(admin) IN
  IF adm.err # Nil
  THEN [ret |-> adm.err, PATH |-> pm.PATH, fs |-> pm.fs,
        pmFunctional |-> pm.pmFunctional, trace |-> pm.trace \o adm.trace]
  ELSE
  LET r == Windows2InstallLoop(deps, 1, pm.PATH, pm.fs,
                               pm.trace \o adm.trace, o)
  IN [ret |-> r.ret, PATH |-> r.PATH, fs |-> r.fs,
      pmFunctional |-> pm.pmFunctional, trace |-> r.trace]

(***************************************************************************)
(* Boards.                                                                 *)
(***************************************************************************)
AvailableBoards ==
  <<[ID |-> "nrf21540dk", FlashMethod |-> "jlink"],
    [ID |-> "nrf52840dk", FlashMethod |-> "jlink"],
    [ID |-> "lp_em_cc2340r5", FlashMethod |-> "uniflash"],
    [ID |-> "lp_em_cc2340r53", FlashMethod |-> "uniflash"]>>

RequiresJLinkAlways(b) ==
  TRUE

RequiresJLink(b) ==
  b.FlashMethod = "jlink"

GetDependencies(b) ==
  IF RequiresJLink(b) THEN <<"uv", "nrfutil", "segger-jlink">> ELSE <<"uv">>

(***************************************************************************)
(* FlashBoard and GenerateHexFile.                                         *)
(***************************************************************************)
ProgramsUvDir ==
  <<"C:", "Users", "u", "AppData", "Local", "Programs", "uv">>

UserLocalBin ==
  <<"C:", "Users", "u", ".local", "bin">>

FirstDir(cmd, path, files) ==
  path[CHOOSE i \in 1..Len(path) :
         /\ <<path[i], cmd>> \in files
         /\ \A j \in 1..(i - 1) : <<path[j], cmd>> \notin files]

findUVPathCommonFirst(path, files) ==
  IF LookPath("uv", path, files)
  THEN [err |-> Nil, dir |-> FirstDir("uv", path, files), consulted |-> <<1>>]
  ELSE IF Stat(ChocoBin, "uv", files)
  THEN [err |-> Nil, dir |-> ChocoBin, consulted |-> <<1, 2>>]
  ELSE IF Stat(ProgramsUvDir, "uv", files)
  THEN [err |-> Nil, dir |-> ProgramsUvDir, consulted |-> <<1, 2, 4>>]
  ELSE IF Stat(UserLocalBin, "uv", files)
  THEN [err |-> Nil, dir |-> UserLocalBin, consulted |-> <<1, 2, 4>>]
  ELSE IF Stat(UvToolsDir, "uv", files)
  THEN [err |-> Nil, dir |-> UvToolsDir, consulted |-> <<1, 2, 4, 3>>]
  ELSE [err |-> NewError(<<"uv", "executable", "not", "found", "in", "any",
                           "expected", "location">>),
        dir |-> <<>>, consulted |-> <<1, 2, 4, 3>>]

findUVPath(path, files) ==
  IF LookPath("uv", path, files)
  THEN [err |-> Nil, dir |-> FirstDir("uv", path, files), consulted |-> <<1>>]
  ELSE IF Stat(ChocoBin, "uv", files)
  THEN [err |-> Nil, dir |-> ChocoBin, consulted |-> <<1, 2>>]
  ELSE IF Stat(UvToolsDir, "uv", files)
  THEN [err |-> Nil, dir |-> UvToolsDir, consulted |-> <<1, 2, 3>>]
  ELSE IF Stat(ProgramsUvDir, "uv", files)
  THEN [err |-> Nil, dir |-> ProgramsUvDir, consulted |-> <<1, 2, 3, 4>>]
  ELSE IF Stat(UserLocalBin, "uv", files)
  THEN [err |-> Nil, dir |-> UserLocalBin, consulted |-> <<1, 2, 3, 4>>]
  ELSE [err |-> NewError(<<"uv", "executable", "not", "found", "in", "any",
                           "expected", "location">>),
        dir |-> <<>>, consulted |-> <<1, 2, 3, 4>>]

LocateUV(plat, path, files) ==
  IF plat = "windows"
  THEN LET r == findUVPath(path, files) IN
       [err |-> IF r.err = Nil THEN Nil
                ELSE WrapError(<<"uv", "executable", "not", "found:">>, r.err),
        dir |-> r.dir]
  ELSE IF LookPath("uv", path, files)
       THEN [err |-> Nil, dir |-> FirstDir("uv", path, files)]
       ELSE [err |-> WrapError(<<"uv", "not", "found", "in", "PATH:">>,
                               NewError(<<"executable", "file", "not",
                                          "found", "in", "$PATH">>)),
             dir |-> <<>>]

ToolRun(plat) ==
  IF plat = "linux" THEN <<"tool", "run">> ELSE <<"tool", "run", "--refresh">>

FlashArgs(plat, brd, orgID, apiToken, deviceName) ==
  ToolRun(plat)
  \o <<"--from", "pyhubbledemo", "hubbledemo", "flash", brd, "-o", orgID,
       "-t", apiToken>>
  \o (IF deviceName # "" THEN <<"-n", deviceName>> ELSE <<>>)

Getwd ==
  "/home/user/work"

Join2(dir, name) ==
  dir \o "/" \o name

HexFilePathOfBoard(brd, deviceName) ==
  Join2(Getwd, brd \o ".hex")

HexFilePathOf(brd, deviceName) ==
  Join2(Getwd, (IF deviceName # "" THEN deviceName ELSE brd) \o ".hex")

GenerateArgs(plat, brd, orgID, apiToken, deviceName) ==
  ToolRun(plat)
  \o <<"--from", "pyhubbledemo", "hubbledemo", "flash", brd, "-o", orgID,
       "-t", apiToken, "-f", HexFilePathOf(brd, deviceName)>>
  \o (IF deviceName # "" THEN <<"-n", deviceName>> ELSE <<>>)

DnsFailure ==
  <<"error:", "Failed", "to", "download", "pyhubbledemo:", "dns", "error:",
    "No", "such", "host", "is", "known">>

OtherFailure ==
  <<"error:", "no", "J-Link", "probe", "connected">>

ToolOutcomes ==
  {[ok |-> TRUE, stderr |-> <<>>],
   [ok |-> FALSE, stderr |-> DnsFailure],
   [ok |-> FALSE, stderr |-> OtherFailure]}

NetworkMarkers ==
  {<<"dns", "error">>, <<"No", "such", "host">>, <<"client", "error">>,
   <<"Failed", "to", "download">>}

IsNetworkError(errStr) ==
  \E m \in NetworkMarkers : IsInfix(m, errStr)

NetworkBlock(what) ==
  <<<<"Network", "connectivity", "error", "during">> \o what,
    <<"Possible", "causes:">>,
    <<"Network", "connectivity", "issues">>,
    <<"Corporate", "firewall", "or", "proxy", "blocking", "GitHub">>,
    <<"DNS", "resolution", "problems">>,
    <<"Antivirus", "or", "security", "software", "blocking", "downloads">>,
    <<"Troubleshooting", "steps:">>,
    <<"Check", "your", "internet", "connection">>,
    <<"Try", "accessing", "https://github.com", "in", "a", "browser">>,
    <<"If", "behind", "a", "corporate", "firewall,", "configure", "proxy",
      "settings:">>,
    <<"Temporarily", "disable", "antivirus/firewall", "and", "try", "again">>,
    <<"Try", "again", "in", "a", "few", "minutes">>>>

ToolFailureUi(plat, err, what) ==
  IF plat = "windows" /\ IsNetworkError(ErrorText(err))
  THEN NetworkBlock(what) ELSE <<>>

resultDeviceNameAsGiven(deviceName) ==
  deviceName

resultDeviceName(deviceName) ==
  IF deviceName = "" THEN "your-device" ELSE deviceName

FlashBoardOf(plat, path, files, brd, orgID, apiToken, deviceName, out) ==
  LET uv == LocateUV(plat, path, files)
      args == FlashArgs(plat, brd, orgID, apiToken, deviceName)
  IN
  IF uv.err # Nil
  THEN [ret |-> uv.err, result |-> <<>>, args |-> <<>>, trace |-> <<>>,
        ui |-> <<>>, stderr |-> <<>>]
  ELSE IF ~out.ok
  THEN [ret |-> WrapError(<<"flash", "command", "failed:">>, ExitError),
        result |-> <<>>, args |-> args, trace |-> <<Run(<<"uv">>, FALSE)>>,
        ui |-> ToolFailureUi(plat, ExitError, <<"flashing">>),
        stderr |-> out.stderr]
  ELSE [ret |-> Nil, ui |-> <<>>, stderr |-> <<>>,
        result |-> <<[DeviceName |-> resultDeviceName(deviceName),
                      HexFilePath |-> ""]>>,
        args |-> args, trace |-> <<Run(<<"uv">>, TRUE)>>]

GenerateHexFileOf(plat, path, files, brd, orgID, apiToken, deviceName, out) ==
  LET uv == LocateUV(plat, path, files)
      args == GenerateArgs(plat, brd, orgID, apiToken, deviceName)
  IN
  IF uv.err # Nil
  THEN [ret |-> uv.err, result |-> <<>>, args |-> <<>>, trace |-> <<>>,
        ui |-> <<>>, stderr |-> <<>>]
  ELSE IF ~out.ok
  THEN [ret |-> WrapError(<<"command", "failed:">>, ExitError),
        result |-> <<>>, args |-> args, trace |-> <<Run(<<"uv">>, FALSE)>>,
        ui |-> ToolFailureUi(plat, ExitError,
                             <<"hex", "file", "generation">>),
        stderr |-> out.stderr]
  ELSE [ret |-> Nil, ui |-> <<>>, stderr |-> <<>>,
        result |-> <<[DeviceName |-> "",
                      HexFilePath |-> HexFilePathOf(brd, deviceName)]>>,
        args |-> args, trace |-> <<Run(<<"uv">>, TRUE)>>]


(***************************************************************************)
(* Installed-tools fixtures: the machines the installer may start on.      *)
(***************************************************************************)
Seq01(b, x) ==
  IF b THEN <<x>> ELSE <<>>

Set01(b, x) ==
  IF b THEN {x} ELSE {}

DarwinFixtures ==
  { LET brewDir == IF f.brew = "arm" THEN BrewArmBin ELSE BrewIntelBin IN
    [platform |-> "darwin", pkgManager |-> "unknown", isAdmin |-> FALSE,
     PATH |-> Seq01(f.brew = "arm" /\ f.pathBrew, BrewArmBin)
              \o Seq01(f.pathLocal, LocalBin)
              \o Seq01(f.brew # "intel" \/ f.pathBrew, BrewIntelBin)
              \o <<UsrBin>>,
     fs |-> Set01(f.brew # "none", <<brewDir, "brew">>)
            \cup Set01(f.uv, <<brewDir, "uv">>)
            \cup Set01(f.nrfutil, <<LocalBin, "nrfutil">>)
            \cup Set01(f.jlink, <<brewDir, "JLinkExe">>),
     pmFunctional |-> f.works] :
    f \in { g \in [brew : {"none", "arm", "intel"}, pathBrew : BOOLEAN,
                   pathLocal : BOOLEAN, uv : BOOLEAN, nrfutil : BOOLEAN,
                   jlink : BOOLEAN, works : BOOLEAN] :
            /\ g.works => g.brew # "none" /\ g.pathBrew
            /\ g.brew = "none" => ~g.pathBrew
            /\ g.nrfutil => g.pathLocal } }

detectPackageManager(path, files) ==
  IF LookPath("apt-get", path, files) THEN "apt"
  ELSE IF LookPath("dnf", path, files) THEN "dnf"
  ELSE IF LookPath("yum", path, files) THEN "yum"
  ELSE "unknown"

LinuxFixtures ==
  { LET path == Seq01(f.pathCargo, CargoBin) \o Seq01(f.pathLocal, LocalBin)
                \o <<UsrBin>>
        files == {<<UsrBin, m>> : m \in f.managers}
                 \cup Set01(f.uv, <<CargoBin, "uv">>)
                 \cup Set01(f.jlink, <<UsrBin, "JLinkExe">>)
    IN [platform |-> "linux",
        pkgManager |-> detectPackageManager(path, files),
        isAdmin |-> FALSE, PATH |-> path, fs |-> files,
        pmFunctional |-> f.managers # {}] :
    f \in { g \in [managers : {{}, {"apt-get"}, {"dnf"}, {"yum"},
                               {"dnf", "yum"}},
                   pathCargo : BOOLEAN, pathLocal : BOOLEAN, uv : BOOLEAN,
                   jlink : BOOLEAN] :
            g.pathCargo => g.uv } }

WindowsFixtures ==
  { [platform |-> "windows", pkgManager |-> "unknown", isAdmin |-> f.admin,
     PATH |-> Seq01(f.pathChoco, ChocoBin) \o Seq01(f.pathNrf, NrfDir)
              \o <<System32>>,
     fs |-> Set01(f.choco, <<ChocoBin, "choco">>)
            \cup Set01(f.uv, <<ChocoBin, "uv">>)
            \cup Set01(f.uv, <<UvToolsDir, "uv">>)
            \cup Set01(f.nrfutil, <<NrfDir, "nrfutil">>),
     pmFunctional |-> f.works] :
    f \in { g \in [choco : BOOLEAN, pathChoco : BOOLEAN, pathNrf : BOOLEAN,
                   uv : BOOLEAN, nrfutil : BOOLEAN, admin : BOOLEAN,
                   works : BOOLEAN] :
            /\ g.works => g.choco /\ g.pathChoco
            /\ g.pathChoco => g.choco
            /\ g.pathNrf => g.nrfutil } }

Windows2Fixtures ==
  { [platform |-> "windows2", pkgManager |-> "unknown", isAdmin |-> f.admin,
     PATH |-> Seq01(f.pathChoco, ChocoBin) \o <<System32>>,
     fs |-> Set01(f.choco, <<ChocoBin, "choco">>)
            \cup Set01(f.uv, <<ChocoBin, "uv">>)
            \cup Set01(f.uv, <<UvToolsDir, "uv">>)
            \cup Set01(f.jlink, <<ChocoBin, "nrfjprog">>),
     pmFunctional |-> f.works] :
    f \in { g \in [choco : BOOLEAN, pathChoco : BOOLEAN, uv : BOOLEAN,
                   jlink : BOOLEAN, admin : BOOLEAN, works : BOOLEAN] :
            /\ g.works => g.choco /\ g.pathChoco
            /\ g.pathChoco => g.choco
            /\ g.jlink => g.choco } }

UnsupportedFixture ==
  [platform |-> "freebsd", pkgManager |-> "unknown", isAdmin |-> FALSE,
   PATH |-> <<UsrBin>>, fs |-> {}, pmFunctional |-> FALSE]

Fixtures ==
  DarwinFixtures \cup LinuxFixtures \cup WindowsFixtures
  \cup Windows2Fixtures

(***************************************************************************)
(* The call record.                                                        *)
(***************************************************************************)
NoCall ==
  [op |-> "none", state |-> "returned", deps |-> <<>>, ret |-> Nil,
   missing |-> <<>>, ui |-> <<>>, pathBefore |-> <<>>, args |-> <<>>,
   result |-> <<>>, bootstrap |-> "none", absent |-> {}, stderr |-> <<>>,
   input |-> <<>>, locals |-> <<>>, spawn |-> {}]

BinaryOf(dep) ==
  IF dep = "segger-jlink" THEN "JLinkExe" ELSE dep

AbsentDeps(deps, path, files) ==
  {d \in Range(deps) : ~LookPath(BinaryOf(d), path, files)}

Returned(op, deps, ret, path) ==
  [NoCall EXCEPT !.op = op, !.deps = deps, !.ret = ret, !.pathBefore = path]

OrgID ==
  "org"

APIToken ==
  "token"

DeviceNames ==
  {"", "dev"}

Init ==
  /\ \E f \in Fixtures \cup {UnsupportedFixture} :
       /\ platform = f.platform
       /\ pkgManager = f.pkgManager
       /\ isAdmin = f.isAdmin
       /\ PATH = f.PATH
       /\ fs = f.fs
       /\ pmFunctional = f.pmFunctional
  /\ \/ /\ caller = "api"
        /\ platform # "freebsd"
        /\ board = 0
        /\ requiredDeps \in DepLists
        /\ mainPc = <<"none">>
     \/ /\ caller = "main"
        /\ board \in 1..Len(AvailableBoards)
        /\ requiredDeps = GetDependencies(AvailableBoards[board])
        /\ mainPc = <<"start">>
  /\ exitCode = -1
  /\ history = <<>>
  /\ call = NoCall
  /\ trace = <<>>
  /\ workers = <<>>
  /\ errChan = <<>>
  /\ wg = 0

(***************************************************************************)
(* Who may invoke an installer method now.                                 *)
(***************************************************************************)
ApiOps ==
  {"CheckPrerequisites", "InstallPackageManager", "InstallDependencies"}

CanCall(op) ==
  /\ exitCode = -1
  /\ call.state = "returned"
  /\ \/ caller = "api" /\ op \in ApiOps
     \/ caller = "main" /\ mainPc = <<"call", op>>

Logged(op) ==
  IF caller = "main" THEN Append(history, op) ELSE history

PcAfter(op) ==
  IF caller = "main" THEN <<"after", op>> ELSE mainPc


(***************************************************************************)
(* Installer methods that run to completion in the calling goroutine.      *)
(***************************************************************************)
CheckPrerequisites ==
  /\ CanCall("CheckPrerequisites")
  /\ LET r == CheckPrerequisitesOf(platform, requiredDeps, PATH, fs,
                                   pkgManager)
     IN /\ PATH' = r.PATH
        /\ call' = [Returned("CheckPrerequisites", requiredDeps, r.err, PATH)
                      EXCEPT !.missing = r.missing, !.ui = r.ui]
  /\ trace' = <<>>
  /\ history' = Logged("CheckPrerequisites")
  /\ mainPc' = PcAfter("CheckPrerequisites")
  /\ UNCHANGED <<envVars, fs, pmFunctional, exitCode, workers, errChan, wg>>

InstallPackageManager ==
  /\ CanCall("InstallPackageManager")
  /\ \E r \in {InstallPackageManagerOf(platform, PATH, fs, pmFunctional,
                                       isAdmin, o) : o \in PmOracles(platform)} :
          /\ PATH' = r.PATH
          /\ fs' = r.fs
          /\ pmFunctional' = r.pmFunctional
          /\ trace' = r.trace
          /\ call' = Returned("InstallPackageManager", <<>>, r.ret, PATH)
  /\ history' = Logged("InstallPackageManager")
  /\ mainPc' = PcAfter("InstallPackageManager")
  /\ UNCHANGED <<envVars, exitCode, workers, errChan, wg>>

InstallDependenciesLinux ==
  /\ CanCall("InstallDependencies")
  /\ platform = "linux"
  /\ \E r \in {LinuxInstallDependencies(requiredDeps, PATH, fs,
                                        pmFunctional, o) :
                 o \in [1..Len(requiredDeps) -> LinuxDepOracles]} :
          /\ PATH' = r.PATH
          /\ fs' = r.fs
          /\ trace' = r.trace
          /\ call' = Returned("InstallDependencies", requiredDeps, r.ret,
                              PATH)
  /\ history' = Logged("InstallDependencies")
  /\ mainPc' = PcAfter("InstallDependencies")
  /\ UNCHANGED <<envVars, pmFunctional, exitCode, workers, errChan, wg>>

InstallDependenciesWindows ==
  /\ CanCall("InstallDependencies")
  /\ platform = "windows"
  /\ \E r \in {WindowsInstallDependencies(requiredDeps, PATH, fs,
                                          pmFunctional, isAdmin, opm, o) :
                 opm \in PmOracles(platform),
                 o \in [1..Len(requiredDeps) -> WindowsDepOracles]} :
          /\ PATH' = r.PATH
          /\ fs' = r.fs
          /\ pmFunctional' = r.pmFunctional
          /\ trace' = r.trace
          /\ call' = Returned("InstallDependencies", requiredDeps, r.ret,
                              PATH)
  /\ history' = Logged("InstallDependencies")
  /\ mainPc' = PcAfter("InstallDependencies")
  /\ UNCHANGED <<envVars, exitCode, workers, errChan, wg>>

InstallDependenciesWindows2 ==
  /\ CanCall("InstallDependencies")
  /\ platform = "windows2"
  /\ \E r \in {Windows2InstallDependencies(requiredDeps, PATH, fs,
                                           pmFunctional, isAdmin, opm, o) :
                 opm \in PmOracles(platform),
                 o \in [1..Len(requiredDeps) ->
                          {a \in WindowsDepOracles : a.download}]} :
          /\ PATH' = r.PATH
          /\ fs' = r.fs
          /\ pmFunctional' = r.pmFunctional
          /\ trace' = r.trace
          /\ call' = Returned("InstallDependencies", requiredDeps, r.ret,
                              PATH)
  /\ history' = Logged("InstallDependencies")
  /\ mainPc' = PcAfter("InstallDependencies")
  /\ UNCHANGED <<envVars, exitCode, workers, errChan, wg>>

FlashBoard ==
  /\ CanCall("FlashBoard")
  /\ \E b \in 1..Len(AvailableBoards), dn \in DeviceNames,
        out \in ToolOutcomes :
       /\ caller = "main" => b = board
       /\ LET r == FlashBoardOf(platform, PATH, fs, AvailableBoards[b].ID,
                                OrgID, APIToken, dn, out)
          IN /\ trace' = r.trace
             /\ call' = [Returned("FlashBoard", <<>>, r.ret, PATH)
                           EXCEPT !.args = r.args, !.result = r.result,
                                  !.ui = r.ui, !.stderr = r.stderr,
                                  !.input = <<AvailableBoards[b].ID, dn>>]
  /\ history' = Logged("FlashBoard")
  /\ mainPc' = PcAfter("FlashBoard")
  /\ UNCHANGED <<envVars, PATH, fs, pmFunctional, exitCode, workers,
                 errChan, wg>>

GenerateHexFile ==
  /\ CanCall("GenerateHexFile")
  /\ \E b \in 1..Len(AvailableBoards), dn \in DeviceNames,
        out \in ToolOutcomes :
       /\ caller = "main" => b = board
       /\ LET r == GenerateHexFileOf(platform, PATH, fs,
                                     AvailableBoards[b].ID, OrgID, APIToken,
                                     dn, out)
          IN /\ trace' = r.trace
             /\ call' = [Returned("GenerateHexFile", <<>>, r.ret, PATH)
                           EXCEPT !.args = r.args, !.result = r.result,
                                  !.ui = r.ui, !.stderr = r.stderr,
                                  !.input = <<AvailableBoards[b].ID, dn>>]
  /\ history' = Logged("GenerateHexFile")
  /\ mainPc' = PcAfter("GenerateHexFile")
  /\ UNCHANGED <<envVars, PATH, fs, pmFunctional, exitCode, workers,
                 errChan, wg>>

(***************************************************************************)
(* DarwinInstaller.InstallDependencies: one goroutine per dependency.      *)
(***************************************************************************)
Worker(dep) ==
  [dep |-> dep, pc |-> "check", ran |-> FALSE, failed |-> FALSE,
   sawFailure |-> FALSE]

LandingDir(dep, path, files) ==
  IF dep = "nrfutil" THEN LocalBin ELSE FirstDir("brew", path, files)

JoinReadyFailFast(counter, ch) ==
  counter = 0 \/ ch # <<>>

JoinReady(counter, ch) ==
  counter = 0

FirstErrorDropped(ch) ==
  Nil

FirstError(ch) ==
  IF ch = <<>> THEN Nil ELSE ch[1]

FoundAt(path, files) ==
  {c \in {"brew", "uv", "nrfutil", "JLinkExe"} : LookPath(c, path, files)}

InstallDependenciesDarwin ==
  /\ CanCall("InstallDependencies")
  /\ platform = "darwin"
  /\ \E pm \in {IF ~commandExists("brew", PATH, fs)
                 THEN DarwinInstallPackageManager(PATH, fs, pmFunctional, o)
                 ELSE [ret |-> Nil, PATH |-> PATH, fs |-> fs,
                       pmFunctional |-> pmFunctional, trace |-> <<>>] :
                 o \in PmOracles(platform)} :
          /\ PATH' = pm.PATH
          /\ fs' = pm.fs
          /\ pmFunctional' = pm.pmFunctional
          /\ trace' = pm.trace
          /\ IF pm.ret # Nil
             THEN /\ call' = [Returned("InstallDependencies", requiredDeps,
                                       pm.ret, PATH)
                                EXCEPT !.bootstrap = "failed",
                                       !.absent = AbsentDeps(requiredDeps,
                                                             PATH, fs)]
                  /\ workers' = <<>>
                  /\ wg' = 0
                  /\ mainPc' = PcAfter("InstallDependencies")
             ELSE /\ call' = [Returned("InstallDependencies", requiredDeps,
                                       Nil, PATH)
                                EXCEPT !.state = "running",
                                       !.spawn = FoundAt(pm.PATH, pm.fs),
                                       !.bootstrap =
                                         IF commandExists("brew", PATH, fs)
                                         THEN "skipped" ELSE "ok",
                                       !.absent = AbsentDeps(requiredDeps,
                                                             PATH, fs)]
                  /\ workers' = [i \in 1..Len(requiredDeps) |->
                                   Worker(requiredDeps[i])]
                  /\ wg' = Len(requiredDeps)
                  /\ mainPc' = mainPc
  /\ errChan' = <<>>
  /\ history' = Logged("InstallDependencies")
  /\ UNCHANGED <<envVars, exitCode>>

errChanUnbuffered(deps) ==
  0

errChanCapacity(deps) ==
  Len(deps)

WorkerFinish(i, err) ==
  /\ err # Nil => Len(errChan) < errChanCapacity(call.deps)
  /\ workers' = [workers EXCEPT ![i].pc = "done", ![i].failed = err # Nil,
                                ![i].sawFailure = workers[i].ran
                                                  /\ errChan # <<>>]
  /\ errChan' = IF err # Nil THEN Append(errChan, err) ELSE errChan
  /\ wg' = wg - 1

WorkerCheck(i) ==
  /\ call.state = "running"
  /\ workers[i].pc = "check"
  /\ LET dep == workers[i].dep IN
     IF dep \notin {"uv", "nrfutil", "segger-jlink"}
        \/ commandExists(BinaryOf(dep), PATH, fs)
     THEN WorkerFinish(i, Nil)
     ELSE IF dep = "nrfutil"
     THEN /\ workers' = [workers EXCEPT ![i].pc = "lookup"]
          /\ UNCHANGED <<errChan, wg>>
     ELSE IF ~LookPath("brew", PATH, fs)
     THEN /\ WorkerFinish(i, WrapError(<<"failed", "to", "install", dep>>,
                            NewError(<<"executable", "file", "not", "found",
                                       "in", "$PATH">>)))
     ELSE /\ workers' = [workers EXCEPT ![i].pc = "running", ![i].ran = TRUE]
          /\ UNCHANGED <<errChan, wg>>
  /\ UNCHANGED <<envVars, PATH, fs, pmFunctional, mainPc, exitCode, history,
                 call, trace>>

WorkerLookup(i) ==
  /\ call.state = "running"
  /\ workers[i].pc = "lookup"
  /\ IF ~LookPath("uv", PATH, fs)
     THEN /\ WorkerFinish(i, WrapError(<<"uv", "not", "found", "in", "PATH",
                                         "(required", "to", "install",
                                         "nrfutil):">>,
                            NewError(<<"executable", "file", "not", "found",
                                       "in", "$PATH">>)))
     ELSE /\ workers' = [workers EXCEPT ![i].pc = "running", ![i].ran = TRUE]
          /\ UNCHANGED <<errChan, wg>>
  /\ UNCHANGED <<envVars, PATH, fs, pmFunctional, mainPc, exitCode, history,
                 call, trace>>

WorkerExit(i) ==
  /\ call.state = "running"
  /\ workers[i].pc = "running"
  /\ \E ok \in BOOLEAN :
       LET dep == workers[i].dep IN
       /\ fs' = IF ok
                THEN fs \cup {<<LandingDir(dep, PATH, fs), BinaryOf(dep)>>}
                ELSE fs
       /\ WorkerFinish(i, IF ok THEN Nil
                          ELSE WrapError(<<"failed", "to", "install", dep>>,
                                         ExitError))
  /\ UNCHANGED <<envVars, PATH, pmFunctional, mainPc, exitCode, history,
                 call, trace>>

Join ==
  /\ call.state = "running"
  /\ JoinReady(wg, errChan)
  /\ call' = [call EXCEPT !.state = "returned", !.ret = FirstError(errChan)]
  /\ mainPc' = PcAfter("InstallDependencies")
  /\ UNCHANGED <<envVars, PATH, fs, pmFunctional, exitCode, history, trace,
                 workers, errChan, wg>>

(***************************************************************************)
(* main()                                                                  *)
(***************************************************************************)
Answers ==
  {"yes", "no", "eof"}

ExitZero(code, said) ==
  /\ exitCode' = 0
  /\ mainPc' = <<"exited", said>>

Exit(code, said) ==
  /\ exitCode' = code
  /\ mainPc' = <<"exited", said>>

Validate(cfg) ==
  IF cfg.OrgID = "" THEN NewError(<<"org", "ID", "is", "required">>)
  ELSE IF cfg.APIToken = ""
  THEN NewError(<<"API", "token", "is", "required">>)
  ELSE IF cfg.Board = ""
  THEN NewError(<<"board", "selection", "is", "required">>)
  ELSE Nil

MainStart ==
  /\ caller = "main"
  /\ mainPc = <<"start">>
  /\ \E ready \in Answers, cfgOK \in BOOLEAN :
       IF ready = "no" THEN Exit(0, "PrintWarning")
       ELSE IF ready = "eof" THEN Exit(1, "PrintError")
       ELSE IF platform \notin {"darwin", "linux", "windows", "windows2"}
       THEN Exit(1, "PrintError")
       ELSE IF ~cfgOK THEN Exit(1, "PrintError")
       ELSE /\ mainPc' = <<"call", "CheckPrerequisites">>
            /\ UNCHANGED exitCode
  /\ UNCHANGED <<envVars, PATH, fs, pmFunctional, history, call, trace,
                 workers, errChan, wg>>

needsPackageManager(missing) ==
  \E i \in 1..Len(missing) : missing[i].Name = "Homebrew"

MainAfterCheck ==
  /\ caller = "main"
  /\ mainPc = <<"after", "CheckPrerequisites">>
  /\ IF call.ret # Nil THEN Exit(1, "PrintError")
     ELSE IF Len(call.missing) > 0
     THEN \E ans \in Answers :
            IF ans # "yes" THEN Exit(1, "PrintError")
            ELSE /\ mainPc' = IF needsPackageManager(call.missing)
                              THEN <<"call", "InstallPackageManager">>
                              ELSE <<"call", "InstallDependencies">>
                 /\ UNCHANGED exitCode
     ELSE /\ mainPc' = <<"validate">>
          /\ UNCHANGED exitCode
  /\ UNCHANGED <<envVars, PATH, fs, pmFunctional, history, call, trace,
                 workers, errChan, wg>>

MainAfterInstallPackageManager ==
  /\ caller = "main"
  /\ mainPc = <<"after", "InstallPackageManager">>
  /\ IF call.ret # Nil THEN Exit(1, "PrintError")
     ELSE /\ mainPc' = <<"call", "InstallDependencies">>
          /\ UNCHANGED exitCode
  /\ UNCHANGED <<envVars, PATH, fs, pmFunctional, history, call, trace,
                 workers, errChan, wg>>

MainAfterInstallDependencies ==
  /\ caller = "main"
  /\ mainPc = <<"after", "InstallDependencies">>
  /\ IF call.ret # Nil THEN Exit(1, "PrintError")
     ELSE /\ mainPc' = <<"validate">>
          /\ UNCHANGED exitCode
  /\ UNCHANGED <<envVars, PATH, fs, pmFunctional, history, call, trace,
                 workers, errChan, wg>>

MainValidate ==
  /\ caller = "main"
  /\ mainPc = <<"validate">>
  /\ IF Validate([OrgID |-> OrgID, APIToken |-> APIToken,
                  Board |-> AvailableBoards[board].ID]) # Nil
     THEN Exit(1, "PrintError")
     ELSE \E ans \in Answers, name \in {"ok", "eof"} :
            IF ans = "no" THEN Exit(0, "PrintWarning")
            ELSE IF ans = "eof" \/ name = "eof" THEN Exit(1, "PrintError")
            ELSE /\ mainPc' = IF RequiresJLink(AvailableBoards[board])
                              THEN <<"call", "FlashBoard">>
                              ELSE <<"call", "GenerateHexFile">>
                 /\ UNCHANGED exitCode
  /\ UNCHANGED <<envVars, PATH, fs, pmFunctional, history, call, trace,
                 workers, errChan, wg>>

MainAfterFlash ==
  /\ caller = "main"
  /\ mainPc \in {<<"after", "FlashBoard">>, <<"after", "GenerateHexFile">>}
  /\ IF call.ret # Nil THEN Exit(1, "PrintError")
     ELSE Exit(0, "PrintCompletionBanner")
  /\ UNCHANGED <<envVars, PATH, fs, pmFunctional, history, call, trace,
                 workers, errChan, wg>>

Next ==
  \/ CheckPrerequisites
  \/ InstallPackageManager
  \/ InstallDependenciesLinux
  \/ InstallDependenciesWindows
  \/ InstallDependenciesWindows2
  \/ InstallDependenciesDarwin
  \/ \E i \in DOMAIN workers : WorkerCheck(i)
  \/ \E i \in DOMAIN workers : WorkerLookup(i)
  \/ \E i \in DOMAIN workers : WorkerExit(i)
  \/ Join
  \/ FlashBoard
  \/ GenerateHexFile
  \/ MainStart
  \/ MainAfterCheck
  \/ MainAfterInstallPackageManager
  \/ MainAfterInstallDependencies
  \/ MainValidate
  \/ MainAfterFlash

Spec ==
  Init /\ [][Next]_vars


(***************************************************************************)
(* The dependency locator on its own: findUVPath called on a Windows       *)
(* machine that has uv.exe in any subset of the places it looks in.        *)
(***************************************************************************)
UvPlaces ==
  {ChocoBin, UvToolsDir, ProgramsUvDir, UserLocalBin}

LocatorPaths ==
  {Seq01(a, UvToolsDir) \o Seq01(b, ChocoBin) \o Seq01(c, UserLocalBin)
     \o <<System32>> : a \in BOOLEAN, b \in BOOLEAN, c \in BOOLEAN}

LocatorInit ==
  /\ platform = "windows"
  /\ pkgManager = "unknown"
  /\ isAdmin = FALSE
  /\ PATH \in LocatorPaths
  /\ fs \in {{<<d, "uv">> : d \in ds} : ds \in SUBSET UvPlaces}
  /\ pmFunctional = FALSE
  /\ caller = "api"
  /\ board = 0
  /\ requiredDeps = <<>>
  /\ mainPc = <<"none">>
  /\ exitCode = -1
  /\ history = <<>>
  /\ call = NoCall
  /\ trace = <<>>
  /\ workers = <<>>
  /\ errChan = <<>>
  /\ wg = 0

FindUV ==
  /\ call.op = "none"
  /\ LET r == findUVPath(PATH, fs) IN
     call' = [NoCall EXCEPT !.op = "findUVPath", !.ret = r.err,
                            !.result = r.dir, !.args = r.consulted,
                            !.pathBefore = PATH]
  /\ UNCHANGED <<envVars, PATH, fs, pmFunctional, mainPc, exitCode, history,
                 trace, workers, errChan, wg>>

LocatorSpec ==
  LocatorInit /\ [][FindUV]_vars

(***************************************************************************)
(* The vendor silent-install routine on its own: installJLinkFromSEGGER,   *)
(* one action per blocking step (directory creation, download, installer   *)
(* subprocess, one poll round), plus the installer's detached children,    *)
(* which write JLink.exe while the routine polls.                          *)
(***************************************************************************)
JLinkTempDir ==
  <<"C:", "Users", "u", "AppData", "Local", "Temp", "hubble-jlink-install">>

JLinkInstaller ==
  "JLink_Installer.exe"

jlinkPaths ==
  <<<<"C:", "Program Files", "SEGGER", "JLink">>,
    <<"C:", "Program Files (x86)", "SEGGER", "JLink">>>>

maxWaitTime ==
  60

checkInterval ==
  2

SilentDialects ==
  <<<<"/S", "/ACCEPTLICENSE=yes">>,
    <<"/q", "/norestart", "ACCEPTLICENSE=yes">>>>

DownloadOutcomes ==
  {"ok", "create", "get", "status", "copy"}

downloadFile(dest, files, o) ==
  IF o = "create"
  THEN [err |-> WrapError(<<"failed", "to", "create", "file:">>,
                          NewError(<<"access", "denied">>)),
        fs |-> files]
  ELSE IF o = "get"
  THEN [err |-> WrapError(<<"failed", "to", "download:">>,
                          NewError(<<"dial", "tcp">>)),
        fs |-> files \cup {dest}]
  ELSE IF o = "status"
  THEN [err |-> NewError(<<"bad", "status:", "404">>),
        fs |-> files \cup {dest}]
  ELSE IF o = "copy"
  THEN [err |-> WrapError(<<"failed", "to", "save", "file:">>,
                          NewError(<<"unexpected", "EOF">>)),
        fs |-> files \cup {dest}]
  ELSE [err |-> Nil, fs |-> files \cup {dest}]

RemoveAllNothing(dir, files) ==
  files

RemoveAll(dir, files) ==
  {f \in files : f[1] # dir}

AfterInstallerAlwaysAlternate(method, ok) ==
  IF method = 1 THEN "alternate" ELSE IF ok THEN "poll" ELSE "failed"

AfterInstaller(method, ok) ==
  IF ok THEN "poll" ELSE IF method = 1 THEN "alternate" ELSE "failed"

PollContinuesOneMore(elapsed) ==
  elapsed <= maxWaitTime

PollContinues(elapsed) ==
  elapsed < maxWaitTime

FoundJLink(files) ==
  IF \E i \in 1..Len(jlinkPaths) : <<jlinkPaths[i], "JLink">> \in files
  THEN CHOOSE i \in 1..Len(jlinkPaths) :
         /\ <<jlinkPaths[i], "JLink">> \in files
         /\ \A j \in 1..(i - 1) : <<jlinkPaths[j], "JLink">> \notin files
  ELSE 0

PathContains(path, dir) ==
  \E i \in 1..Len(path) : IsInfix(dir, path[i])

jlinkPathStep(path, dir) ==
  IF PathContains(path, dir) THEN path ELSE <<dir>> \o path

NotFoundAfterTimeout ==
  NewError(<<"J-Link", "installation", "completed", "but", "JLink.exe",
             "not", "found", "in", "expected", "locations", "after",
             "1m0s">>)

JLinkLocals ==
  [method |-> 1, elapsed |-> 0, rounds |-> 0, installed |-> FALSE,
   err |-> Nil]

JLinkInit ==
  /\ platform = "windows"
  /\ pkgManager = "unknown"
  /\ isAdmin = FALSE
  /\ PATH \in {<<System32>>, <<jlinkPaths[1], System32>>}
  /\ fs \in {js \cup Set01(left, <<JLinkTempDir, JLinkInstaller>>) :
               js \in SUBSET {<<jlinkPaths[i], "JLink">> : i \in 1..2},
               left \in BOOLEAN}
  /\ pmFunctional = FALSE
  /\ caller = "api"
  /\ board = 0
  /\ requiredDeps = <<>>
  /\ mainPc = <<"none">>
  /\ exitCode = -1
  /\ history = <<>>
  /\ call = [NoCall EXCEPT !.op = "installJLinkFromSEGGER",
                           !.state = "mkdir", !.pathBefore = PATH,
                           !.locals = JLinkLocals]
  /\ trace = <<>>
  /\ workers = <<>>
  /\ errChan = <<>>
  /\ wg = 0

JLinkRunning(state) ==
  /\ call.op = "installJLinkFromSEGGER"
  /\ call.state = state

JLinkReturn(err, files) ==
  /\ call' = [call EXCEPT !.state = "returned", !.ret = err]
  /\ fs' = RemoveAll(JLinkTempDir, files)

JLinkMkdirAll ==
  /\ JLinkRunning("mkdir")
  /\ \E ok \in BOOLEAN :
       IF ~ok /\ ~DirExists(JLinkTempDir, fs)
       THEN /\ call' = [call EXCEPT
                          !.state = "returned",
                          !.ret = WrapError(<<"failed", "to", "create",
                                              "temp", "directory:">>,
                                            NewError(<<"access",
                                                       "denied">>))]
            /\ UNCHANGED fs
       ELSE /\ call' = [call EXCEPT !.state = "download"]
            /\ fs' = fs \cup {<<JLinkTempDir, ".">>}
  /\ UNCHANGED <<envVars, PATH, pmFunctional, mainPc, exitCode, history,
                 trace, workers, errChan, wg>>

JLinkDownload ==
  /\ JLinkRunning("download")
  /\ \E o \in DownloadOutcomes :
       LET r == downloadFile(<<JLinkTempDir, JLinkInstaller>>, fs, o) IN
       IF r.err # Nil
       THEN JLinkReturn(WrapError(<<"download", "failed:">>, r.err), r.fs)
       ELSE /\ call' = [call EXCEPT !.state = "install"]
            /\ fs' = r.fs
  /\ UNCHANGED <<envVars, PATH, pmFunctional, mainPc, exitCode, history,
                 trace, workers, errChan, wg>>

JLinkRunInstaller ==
  /\ JLinkRunning("install")
  /\ \E exit \in {0, 1} :
       LET method == call.locals.method
           ev == RunExit(<<JLinkInstaller>> \o SilentDialects[method], exit)
           next == AfterInstaller(method, exit = 0)
       IN
       /\ trace' = Append(trace, ev)
       /\ IF next = "failed"
          THEN JLinkReturn(WrapError(<<"installer", "failed", "with", "both",
                                       "methods:">>,
                                     call.locals.err \o ExitErrorOf(exit)),
                           fs)
          ELSE IF next = "alternate"
          THEN /\ call' = [call EXCEPT !.locals.method = 2,
                                       !.locals.err = ExitErrorOf(exit)]
               /\ UNCHANGED fs
          ELSE /\ call' = [call EXCEPT !.state = "poll"]
               /\ UNCHANGED fs
  /\ UNCHANGED <<envVars, PATH, pmFunctional, mainPc, exitCode, history,
                 workers, errChan, wg>>

JLinkInstallerChild ==
  /\ JLinkRunning("poll")
  /\ \E i \in 1..Len(jlinkPaths) :
       /\ <<jlinkPaths[i], "JLink">> \notin fs
       /\ fs' = fs \cup {<<jlinkPaths[i], "JLink">>}
  /\ UNCHANGED <<envVars, PATH, pmFunctional, mainPc, exitCode, history,
                 call, trace, workers, errChan, wg>>

JLinkPoll ==
  /\ JLinkRunning("poll")
  /\ LET l == call.locals
         i == FoundJLink(fs)
     IN
     IF ~PollContinues(l.elapsed)
     THEN /\ JLinkReturn(NotFoundAfterTimeout, fs)
          /\ UNCHANGED PATH
     ELSE IF i # 0
     THEN /\ call' = [call EXCEPT !.state = "returned", !.ret = Nil,
                                  !.locals.installed = TRUE,
                                  !.locals.rounds = l.rounds + 1]
          /\ fs' = RemoveAll(JLinkTempDir, fs)
          /\ PATH' = jlinkPathStep(PATH, jlinkPaths[i])
     ELSE /\ call' = [call EXCEPT !.locals.elapsed = l.elapsed + checkInterval,
                                  !.locals.rounds = l.rounds + 1]
          /\ UNCHANGED <<fs, PATH>>
  /\ UNCHANGED <<envVars, pmFunctional, mainPc, exitCode, history, trace,
                 workers, errChan, wg>>

JLinkNext ==
  \/ JLinkMkdirAll
  \/ JLinkDownload
  \/ JLinkRunInstaller
  \/ JLinkInstallerChild
  \/ JLinkPoll

JLinkSpec ==
  JLinkInit /\ [][JLinkNext]_vars

JLinkFairSpec ==
  JLinkSpec /\ WF_vars(JLinkPoll)

(***************************************************************************)
(* DarwinInstaller.InstallDependencies on its own, under a scheduler that  *)
(* keeps running the goroutines and lets every subprocess exit.            *)
(***************************************************************************)
DarwinInit ==
  /\ Init
  /\ platform = "darwin"
  /\ caller = "api"

DarwinWorkerStep ==
  \/ \E i \in DOMAIN workers : WorkerCheck(i)
  \/ \E i \in DOMAIN workers : WorkerLookup(i)
  \/ \E i \in DOMAIN workers : WorkerExit(i)
  \/ Join

DarwinNext ==
  \/ InstallDependenciesDarwin
  \/ \E i \in DOMAIN workers : WorkerCheck(i)
  \/ \E i \in DOMAIN workers : WorkerLookup(i)
  \/ \E i \in DOMAIN workers : WorkerExit(i)
  \/ Join

DarwinFairSpec ==
  DarwinInit /\ [][DarwinNext]_vars /\ WF_vars(DarwinWorkerStep)

(***************************************************************************)
(* The path-setup helpers on their own, applied in any order and any       *)
(* number of times to a process PATH.  A PATH entry may be any directory,  *)
(* a sub-directory of a helper's directory included.                       *)
(***************************************************************************)
MaxPathLen ==
  2

PathHelpers(plat) ==
  CASE plat = "darwin" -> {"setupBrewPath"}
    [] plat = "linux" -> {"installUV"}
    [] plat = "windows" -> {"setupChocoPath", "setupUVPath",
                            "ensureNRFUtilPath", "installJLinkFromSEGGER"}

PathDirs(plat) ==
  CASE plat = "darwin" ->
         {BrewArmBin, BrewIntelBin, BrewIntelBin \o <<"sbin">>, UsrBin}
    [] plat = "linux" -> {CargoBin, CargoBin \o <<"extra">>, UsrBin}
    [] plat = "windows" ->
         {ChocoBin, ChocoBin \o <<"tools">>, NrfDir, jlinkPaths[1], System32}

PathFiles(plat) ==
  CASE plat = "darwin" -> {<<BrewArmBin, "brew">>, <<BrewIntelBin, "brew">>}
    [] plat = "linux" -> {}
    [] plat = "windows" -> {<<ChocoBin, "choco">>, <<UvToolsDir, "uv">>,
                            <<jlinkPaths[1], "JLink">>}

PathHelperInit ==
  /\ platform \in {"darwin", "linux", "windows"}
  /\ pkgManager = "unknown"
  /\ isAdmin = FALSE
  /\ PATH \in {q \in UNION {[1..n -> PathDirs(platform)] :
                                n \in 1..MaxPathLen} : IsInjective(q)}
  /\ fs \in SUBSET PathFiles(platform)
  /\ pmFunctional = FALSE
  /\ caller = "api"
  /\ board = 0
  /\ requiredDeps = <<>>
  /\ mainPc = <<"none">>
  /\ exitCode = -1
  /\ history = <<>>
  /\ call = NoCall
  /\ trace = <<>>
  /\ workers = <<>>
  /\ errChan = <<>>
  /\ wg = 0

PathHelperOf(h, path, files) ==
  CASE h = "setupBrewPath" -> setupBrewPath(path, files)
    [] h = "setupChocoPath" -> setupChocoPath(path, files)
    [] h = "setupUVPath" -> [err |-> Nil, PATH |-> setupUVPath(path, files)]
    [] h = "ensureNRFUtilPath" ->
         [err |-> Nil, PATH |-> ensureNRFUtilPath(path)]
    [] h = "installUV" ->
         [err |-> Nil,
          PATH |-> installUV(path, files,
                             [ok |-> TRUE, lands |-> CargoBin]).PATH]
    [] h = "installJLinkFromSEGGER" ->
         IF FoundJLink(files) = 0
         THEN [err |-> NotFoundAfterTimeout, PATH |-> path]
         ELSE [err |-> Nil,
               PATH |-> jlinkPathStep(path, jlinkPaths[FoundJLink(files)])]

ApplyPathHelper ==
  /\ \E h \in PathHelpers(platform) :
       LET r == PathHelperOf(h, PATH, fs) IN
       /\ PATH' = r.PATH
       /\ call' = [NoCall EXCEPT !.op = h, !.ret = r.err,
                                 !.pathBefore = PATH]
  /\ UNCHANGED <<envVars, fs, pmFunctional, mainPc, exitCode, history,
                 trace, workers, errChan, wg>>

PathHelperSpec ==
  PathHelperInit /\ [][ApplyPathHelper]_vars

(***************************************************************************)
(* Properties.                                                             *)
(***************************************************************************)
DarwinInstallReturned ==
  /\ platform = "darwin"
  /\ call.op = "InstallDependencies"
  /\ call.state = "returned"

AllAbsent ==
  call.absent = Range(call.deps)

Failed ==
  {i \in DOMAIN workers : workers[i].failed}

EveryAttemptCompleted ==
  /\ Len(workers) = Len(call.deps)
  /\ \A i \in DOMAIN workers :
       workers[i].dep = call.deps[i] /\ workers[i].pc = "done"
  /\ Cardinality(Failed) = 1 => call.ret # Nil

\* C1 (as stated): on macOS, for any list of N requested dependencies that
\* are all absent, InstallDependencies starts one install attempt (one worker
\* task) per dependency, every attempt has run to completion when the call
\* returns, and if exactly one attempt failed the returned error is non-nil.
C1_AllAttemptsAlways ==
  DarwinInstallReturned /\ AllAbsent => EveryAttemptCompleted

\* C1 (amended): the same, for the calls that get past the Homebrew check,
\* i.e. brew was found at entry or was bootstrapped successfully by the call.
C1_AllAttemptsRunToCompletion ==
  DarwinInstallReturned /\ AllAbsent /\ call.bootstrap # "failed"
    => EveryAttemptCompleted

\* C1 witness: two or more absent dependencies, exactly one attempt failed,
\* and a sibling whose install subprocess exited successfully after that
\* failure had been reported; the call returned an error.
C1_Witness ==
  /\ DarwinInstallReturned /\ AllAbsent
  /\ Len(workers) >= 2
  /\ Cardinality(Failed) = 1
  /\ \E i \in DOMAIN workers :
       workers[i].ran /\ ~workers[i].failed /\ workers[i].sawFailure
  /\ call.ret # Nil


Reported ==
  Range(errChan)

BarrierHeld ==
  /\ \A i \in DOMAIN workers : workers[i].pc = "done"
  /\ wg = 0
  /\ call.ret = Nil <=> Reported = {}
  /\ call.ret # Nil => call.ret \in Reported

\* C2 (as stated): on macOS, InstallDependencies returns only after every
\* worker it spawned has finished; it returns nil exactly when no worker
\* reported an error, and otherwise returns one of the reported errors.
C2_BarrierAlways ==
  DarwinInstallReturned => BarrierHeld

\* C2 (amended): the same, for the calls that get past the Homebrew check; a
\* call whose Homebrew bootstrap fails spawns no worker and returns the
\* bootstrap's error, which no worker reported.
C2_WaitForAllBarrier ==
  /\ DarwinInstallReturned /\ call.bootstrap # "failed" => BarrierHeld
  /\ DarwinInstallReturned /\ call.bootstrap = "failed"
       => workers = <<>> /\ Reported = {} /\ call.ret # Nil

\* C2 witness: a call returned one of two distinct errors reported by its
\* workers, after all of them had finished.
C2_Witness ==
  /\ DarwinInstallReturned
  /\ call.bootstrap # "failed"
  /\ Cardinality(Reported) >= 2
  /\ call.ret \in Reported
  /\ \A i \in DOMAIN workers : workers[i].pc = "done"

CheckReturned ==
  call.op = "CheckPrerequisites" /\ call.state = "returned"

\* C3: on every platform a CheckPrerequisites call is read-only: it leaves
\* PATH, the installed files and the package manager's condition as they
\* were at entry.
C3_CheckNeverMutates ==
  [][CheckPrerequisites => UNCHANGED <<PATH, fs, pmFunctional>>]_vars

PmPresent ==
  CASE platform = "darwin" -> LookPath("brew", PATH, fs)
    [] IsWindows(platform) -> LookPath("choco", PATH, fs)
    [] OTHER -> pkgManager # "unknown"

NoOpSuccess ==
  /\ call.op = "InstallPackageManager"
  /\ call.state = "returned"
  /\ call.ret = Nil
  /\ trace = <<>>
  /\ PATH = call.pathBefore

\* C4: on every platform, an InstallPackageManager call made while the
\* package manager is present and functional -- and likewise a call that
\* directly follows a successful InstallPackageManager call -- returns
\* success, runs no subprocess, and leaves PATH and the installed files
\* unchanged.
C4_InstallPackageManagerIdempotent ==
  [][/\ InstallPackageManager
     /\ \/ PmPresent /\ pmFunctional
        \/ call.op = "InstallPackageManager" /\ call.ret = Nil
     => /\ call'.ret = Nil
        /\ trace' = <<>>
        /\ UNCHANGED <<PATH, fs, pmFunctional>>]_vars

\* C4 witness: a call found a present, functional manager (Homebrew or
\* Chocolatey) and returned success without running anything.
C4_Witness ==
  /\ platform \in {"darwin", "windows", "windows2"}
  /\ NoOpSuccess
  /\ PmPresent /\ pmFunctional

\* C5: on macOS and Windows, InstallPackageManager takes the no-op success
\* path only if the manager is present and functional; a manager found on
\* PATH whose version query fails is not treated as already installed.
C5_NoOpOnlyIfFunctional ==
  platform \in {"darwin", "windows", "windows2"} /\ NoOpSuccess
    => PmPresent /\ pmFunctional

Blocked ==
  /\ platform = "linux"
  /\ "segger-jlink" \in Range(requiredDeps)
  /\ ~LookPath("JLinkExe", PATH, fs)

MainRefused ==
  caller = "main" =>
    /\ history \in {<<>>, <<"CheckPrerequisites">>}
    /\ mainPc \in {<<"start">>, <<"call", "CheckPrerequisites">>,
                   <<"after", "CheckPrerequisites">>,
                   <<"exited", "PrintWarning">>, <<"exited", "PrintError">>}
    /\ history # <<>> => exitCode \in {-1, 1}
    /\ history # <<>> /\ mainPc[1] = "exited" => exitCode = 1

\* C6: on Linux, while a required segger-jlink is absent, CheckPrerequisites
\* returns an error and no MissingDependency list, and a run of the
\* orchestrator never calls InstallPackageManager, InstallDependencies,
\* FlashBoard or GenerateHexFile: after the check it can only exit, with
\* status 1.
C6_BlockedIsTerminal ==
  Blocked =>
    /\ CheckReturned => call.ret # Nil /\ call.missing = <<>>
    /\ MainRefused

\* C6 witness: the orchestrator exited with status 1 right after a check that
\* failed on the absent J-Link of a supported distribution.
C6_Witness ==
  /\ Blocked /\ pkgManager # "unknown"
  /\ caller = "main"
  /\ CheckReturned /\ ErrorText(call.ret) = JLinkErrorText
  /\ history = <<"CheckPrerequisites">>
  /\ mainPc[1] = "exited" /\ exitCode = 1

LicenseBlocked ==
  Blocked /\ pkgManager # "unknown" /\ CheckReturned

ManualInstallCommands ==
  {DpkgCommand, DnfCommand, YumCommand}

ExpectedVariant ==
  IF LookPath("apt-get", PATH, fs) THEN DpkgCommand
  ELSE IF LookPath("dnf", PATH, fs) THEN DnfCommand
  ELSE YumCommand

\* C7 (as stated): the error CheckPrerequisites returns for an absent
\* segger-jlink on Linux contains the three manual-install command variants
\* (dpkg, dnf, yum), whichever package manager was detected.
C7_ErrorCarriesAllVariants ==
  LicenseBlocked =>
    \A c \in ManualInstallCommands : IsInfix(c, ErrorText(call.ret))

\* C7 (amended): the returned error is the fixed message "J-Link must be
\* installed before running this installer" and contains no command; the
\* manual-install command is printed before returning, and of the three
\* variants exactly the one for the detected package manager is printed.
C7_OneVariantPrinted ==
  LicenseBlocked =>
    /\ ErrorText(call.ret) = JLinkErrorText
    /\ \A c \in ManualInstallCommands : ~IsInfix(c, ErrorText(call.ret))
    /\ ManualInstallCommands \cap Range(call.ui) = {ExpectedVariant}

\* C7 witness: with both dnf and yum installed the check printed the dnf
\* variant only, and returned the fixed message.
C7_Witness ==
  /\ LicenseBlocked
  /\ LookPath("dnf", PATH, fs) /\ LookPath("yum", PATH, fs)
  /\ DnfCommand \in Range(call.ui) /\ YumCommand \notin Range(call.ui)
  /\ ErrorText(call.ret) = JLinkErrorText

NoManagerDetected ==
  /\ platform = "linux"
  /\ \A m \in {"apt-get", "dnf", "yum"} : ~LookPath(m, PATH, fs)

\* C8: on Linux, when none of apt-get, dnf and yum is found, CheckPrerequisites
\* returns the unsupported-distribution error and no missing list for every
\* required-dependency list, the empty one included, and a run of the
\* orchestrator makes no install or flash call: it exits with status 1.
C8_UnsupportedDistroRefused ==
  NoManagerDetected =>
    /\ CheckReturned =>
         ErrorText(call.ret) = UnsupportedDistroText /\ call.missing = <<>>
    /\ MainRefused

\* C8 witness: the orchestrator exited with status 1 right after the check
\* returned the unsupported-distribution error.
C8_Witness ==
  /\ NoManagerDetected
  /\ caller = "main"
  /\ CheckReturned /\ ErrorText(call.ret) = UnsupportedDistroText
  /\ history = <<"CheckPrerequisites">>
  /\ mainPc[1] = "exited" /\ exitCode = 1

Perms(q) ==
  {[i \in 1..Len(q) |-> q[f[i]]] : f \in Permutations(1..Len(q))}

Names(missing) ==
  {missing[i].Name : i \in DOMAIN missing}

Outcome(r) ==
  [names |-> Names(r.missing), err |-> r.err]

CheckNow(deps) ==
  CheckPrerequisitesOf(platform, deps, PATH, fs, pkgManager)

\* C9: for a fixed set of installed tools, the outcome of CheckPrerequisites
\* (the set of missing names, or the error) is the same for every permutation
\* of the required-dependency list, the same when the call is made twice in
\* a row, and the same as that of the call that has just returned.
C9_CheckDependsOnlyOnTheSet ==
  /\ \A p \in Perms(requiredDeps) :
       Outcome(CheckNow(p)) = Outcome(CheckNow(requiredDeps))
  /\ LET first == CheckNow(requiredDeps)
         second == CheckPrerequisitesOf(platform, requiredDeps, first.PATH,
                                        fs, pkgManager)
     IN Outcome(second) = Outcome(first)
  /\ CheckReturned =>
       Outcome(CheckNow(call.deps))
         = [names |-> Names(call.missing), err |-> call.ret]

\* C9 witness: a check of a list of two or more dependencies returned two or
\* more of them as missing.
C9_Witness ==
  /\ CheckReturned
  /\ Len(call.deps) >= 2
  /\ Cardinality(Names(call.missing) \cap Range(call.deps)) >= 2
  /\ Cardinality(Perms(call.deps)) >= 2

KnownDeps ==
  {"uv", "nrfutil", "segger-jlink"}

ToolAbsent(dep) ==
  \A f \in fs : f[2] # BinaryOf(dep)

\* C10: a required tool that is absent is reported by CheckPrerequisites as
\* a MissingDependency carrying its name (whenever the check returns a list),
\* and once InstallDependencies(deps) has returned success a
\* CheckPrerequisites(deps) in the same process returns no error and an empty
\* list.
C10_InstallThenCheckIsClean ==
  /\ CheckReturned /\ call.ret = Nil =>
       \A d \in Range(call.deps) \cap KnownDeps :
         ToolAbsent(d) => d \in Names(call.missing)
  /\ /\ call.op = "InstallDependencies"
     /\ call.state = "returned"
     /\ call.ret = Nil
     => CheckNow(call.deps).err = Nil /\ CheckNow(call.deps).missing = <<>>

StrategyDirs(k) ==
  CASE k = 1 -> Range(PATH)
    [] k = 2 -> {ChocoBin}
    [] k = 3 -> {UvToolsDir}
    [] k = 4 -> {ProgramsUvDir, UserLocalBin}

Succeeds(k) ==
  \E d \in StrategyDirs(k) : <<d, "uv">> \in fs

Located ==
  call.op = "findUVPath"

\* C11: the locator consults its strategies in the order (1) PATH lookup,
\* (2) Chocolatey bin directory, (3) Chocolatey lib query, (4) common
\* per-user directories; it returns a path found by the first strategy that
\* succeeds and consults none after it, and it fails only when all four have
\* failed.
C11_FirstSuccessfulStrategyWins ==
  Located =>
    LET ok == {k \in 1..4 : Succeeds(k)} IN
    IF ok = {}
    THEN call.ret # Nil /\ call.args = <<1, 2, 3, 4>>
    ELSE LET first == CHOOSE k \in ok : \A j \in ok : k <= j IN
         /\ call.ret = Nil
         /\ call.args = [i \in 1..first |-> i]
         /\ call.result \in StrategyDirs(first)
         /\ <<call.result, "uv">> \in fs

\* C11 witness: PATH lookup and the bin directory fail, the lib query and a
\* common directory would both succeed; the lib query's path is returned and
\* strategy 4 is not consulted.
C11_Witness ==
  /\ Located
  /\ ~Succeeds(1) /\ ~Succeeds(2) /\ Succeeds(3) /\ Succeeds(4)
  /\ call.ret = Nil
  /\ call.result = UvToolsDir
  /\ call.args = <<1, 2, 3>>

IsRebootRequired(err) ==
  \E i \in DOMAIN err : err[i].type = "RebootRequiredError"

ChocoInstallExits ==
  {trace[i].exit : i \in {j \in DOMAIN trace :
                            /\ Len(trace[j].cmd) = 3
                            /\ trace[j].cmd[1] = "choco"
                            /\ trace[j].cmd[2] = "install"}}

WindowsInstallReturned ==
  /\ IsWindows(platform)
  /\ call.op = "InstallDependencies"
  /\ call.state = "returned"

\* C12: on Windows, the error InstallDependencies returns is identifiable as
\* RebootRequired when a `choco install` subprocess of the call exited with
\* 3010, and is not RebootRequired when none did.
C12_RebootRequiredIsDistinguished ==
  WindowsInstallReturned =>
    (IsRebootRequired(call.ret) <=> RebootExitCode \in ChocoInstallExits)

\* The same holds of the first WindowsInstaller definition taken alone.
RebootRequiredInFirstDefinition ==
  platform = "windows" => C12_RebootRequiredIsDistinguished

FlashReturned ==
  /\ call.op \in {"FlashBoard", "GenerateHexFile"}
  /\ call.state = "returned"

ToolFailed ==
  /\ FlashReturned
  /\ trace # <<>>
  /\ ~trace[Len(trace)].ok

BlockAttached ==
  \E what \in {<<"flashing">>, <<"hex", "file", "generation">>} :
    \/ \A i \in DOMAIN NetworkBlock(what) :
         NetworkBlock(what)[i] \in Range(call.ui)
    \/ \A i \in DOMAIN NetworkBlock(what) :
         IsInfix(NetworkBlock(what)[i], ErrorText(call.ret))

\* C13: when the external flashing tool exits non-zero, FlashBoard and
\* GenerateHexFile return an error, and the network-remediation block comes
\* with it (printed or in the error) exactly when the tool's error output
\* contains a DNS/network-failure substring.
C13_NetworkBlockIffNetworkFailure ==
  ToolFailed =>
    /\ call.ret # Nil
    /\ BlockAttached <=> IsNetworkError(call.stderr)

ToolInvoked ==
  FlashReturned /\ trace # <<>>

BoardArg ==
  call.input[1]

DeviceNameArg ==
  call.input[2]

IsPrefix(s, t) ==
  Len(s) <= Len(t) /\ SubSeq(t, 1, Len(s)) = s

\* C14: on every platform the argument vector FlashBoard and GenerateHexFile
\* pass to the tool starts with "tool run --refresh --from pyhubbledemo
\* hubbledemo flash <boardID> -o <orgID> -t <apiToken>".
C14_RefreshFlagOnEveryPlatform ==
  ToolInvoked =>
    IsPrefix(<<"tool", "run", "--refresh", "--from", "pyhubbledemo",
               "hubbledemo", "flash", BoardArg, "-o", OrgID, "-t",
               APIToken>>, call.args)

FlagValues(flag) ==
  {call.args[i + 1] : i \in {j \in 1..(Len(call.args) - 1) :
                               call.args[j] = flag}}

HasFlag(flag) ==
  flag \in Range(call.args)

ExpectedOutputPath ==
  Getwd \o "/" \o (IF DeviceNameArg # "" THEN DeviceNameArg ELSE BoardArg)
        \o ".hex"

\* C15: in the tool's argument vector "-n <deviceName>" is present iff
\* deviceName is non-empty and "-f <outputPath>" is present iff the operation
\* is GenerateHexFile; outputPath is the working directory joined with
\* "<deviceName>.hex" for a non-empty deviceName and "<boardID>.hex"
\* otherwise, and the HexFilePath returned on success is that outputPath.
C15_DeviceNameAndOutputFlags ==
  ToolInvoked =>
    /\ HasFlag("-n") <=> DeviceNameArg # ""
    /\ HasFlag("-n") => FlagValues("-n") = {DeviceNameArg}
    /\ HasFlag("-f") <=> call.op = "GenerateHexFile"
    /\ HasFlag("-f") => FlagValues("-f") = {ExpectedOutputPath}
    /\ call.op = "GenerateHexFile" /\ call.ret = Nil
         => call.result[1].HexFilePath = ExpectedOutputPath

\* C15 witness: GenerateHexFile succeeded for a named device; "-f" carries
\* "<cwd>/<deviceName>.hex", which is also the HexFilePath returned.
C15_Witness ==
  /\ ToolInvoked
  /\ call.op = "GenerateHexFile" /\ call.ret = Nil
  /\ DeviceNameArg = "dev"
  /\ FlagValues("-f") = {"/home/user/work/dev.hex"}
  /\ FlagValues("-n") = {"dev"}
  /\ call.result[1].HexFilePath = "/home/user/work/dev.hex"

\* C16: a FlashResult returned without error has exactly one field
\* populated -- DeviceName for FlashBoard (for every deviceName input, the
\* empty one included), HexFilePath for GenerateHexFile -- and no FlashResult
\* is returned with an error.
C16_ExactlyOneFieldPopulated ==
  FlashReturned =>
    /\ call.ret # Nil => call.result = <<>>
    /\ call.ret = Nil =>
         /\ Len(call.result) = 1
         /\ call.op = "FlashBoard" =>
              /\ call.result[1].DeviceName # ""
              /\ call.result[1].HexFilePath = ""
         /\ call.op = "GenerateHexFile" =>
              /\ call.result[1].HexFilePath # ""
              /\ call.result[1].DeviceName = ""

\* C16 witness: FlashBoard succeeded with an empty deviceName and returned
\* the placeholder device name and no hex path.
C16_Witness ==
  /\ FlashReturned
  /\ call.op = "FlashBoard" /\ call.ret = Nil
  /\ DeviceNameArg = ""
  /\ call.result[1].DeviceName = "your-device"
  /\ call.result[1].HexFilePath = ""

Exited ==
  caller = "main" /\ mainPc[1] = "exited"

OverallSuccess ==
  /\ call.op \in {"FlashBoard", "GenerateHexFile"}
  /\ call.ret = Nil
  /\ mainPc = <<"exited", "PrintCompletionBanner">>

UserDeclined ==
  mainPc = <<"exited", "PrintWarning">>

FatalError ==
  mainPc = <<"exited", "PrintError">>

\* C17 (as stated): the process exits with code 0 only on overall success
\* (the board was flashed or the hex file generated) and with code 1 on
\* every fatal error; no other exit code is used.
C17_ZeroOnlyOnOverallSuccess ==
  Exited =>
    /\ exitCode \in {0, 1}
    /\ exitCode = 0 => OverallSuccess
    /\ FatalError => exitCode = 1

\* C17 (amended): the process exits with code 0 on overall success and when
\* the user declines the "ready to install" or the "flash now" prompt, with
\* code 1 on every fatal error (a failed installer operation included), and
\* with no other code.
C17_ZeroOnSuccessOrUserDecline ==
  Exited =>
    /\ exitCode \in {0, 1}
    /\ exitCode = 0 <=> (OverallSuccess \/ UserDeclined)
    /\ exitCode = 1 <=> FatalError
    /\ call.ret # Nil => exitCode = 1

\* C17 witness: the user declined the flash prompt after a clean
\* prerequisite check and the process exited with code 0.
C17_Witness ==
  /\ Exited
  /\ UserDeclined
  /\ history # <<>>
  /\ exitCode = 0

JLinkReturned ==
  JLinkRunning("returned")

JLinkExitPath ==
  IF ~JLinkReturned THEN "running"
  ELSE IF call.ret = Nil THEN "success"
  ELSE IF call.ret = NotFoundAfterTimeout THEN "timeout"
  ELSE IF Head(call.ret).text = <<"download", "failed:">> THEN "download"
  ELSE IF Head(call.ret).text
            = <<"installer", "failed", "with", "both", "methods:">>
  THEN "installer"
  ELSE "mkdir"

Dialect(k) ==
  <<JLinkInstaller>> \o SilentDialects[k]

PastInstaller ==
  JLinkRunning("poll") \/ JLinkExitPath \in {"success", "timeout", "installer"}

\* C18: the silent-install routine invokes the installer with the first flag
\* dialect, invokes the alternate dialect exactly once and only if the first
\* invocation failed, reports the installer failure only if both invocations
\* failed, never invokes the installer more than twice, and invokes nothing
\* when the download failed.
C18_AlternateDialectOnlyAfterFailure ==
  call.op = "installJLinkFromSEGGER" =>
    /\ Len(trace) <= 2
    /\ Len(trace) >= 1 => trace[1].cmd = Dialect(1)
    /\ Len(trace) = 2 => ~trace[1].ok /\ trace[2].cmd = Dialect(2)
    /\ PastInstaller =>
         /\ Len(trace) >= 1
         /\ ~trace[1].ok => Len(trace) = 2
    /\ JLinkExitPath = "installer"
         <=> (JLinkReturned /\ Len(trace) = 2 /\ ~trace[2].ok)
    /\ JLinkExitPath = "download" => trace = <<>>

\* C18 witness: the first dialect failed, the alternate was invoked once and
\* failed too, and the routine reported the installer failure.
C18_Witness ==
  /\ JLinkExitPath = "installer"
  /\ Len(trace) = 2
  /\ trace[1].cmd = Dialect(1) /\ ~trace[1].ok
  /\ trace[2].cmd = Dialect(2) /\ ~trace[2].ok

MaxRounds ==
  maxWaitTime \div checkInterval

PollSafe ==
  call.op = "installJLinkFromSEGGER" =>
    /\ call.locals.elapsed \in {k * checkInterval : k \in 0..MaxRounds}
    /\ call.locals.rounds <= MaxRounds
    /\ JLinkExitPath = "success" =>
         /\ call.locals.installed
         /\ FoundJLink(fs) # 0
    /\ JLinkExitPath = "timeout" =>
         /\ call.locals.elapsed = maxWaitTime
         /\ call.locals.rounds = MaxRounds
         /\ ~call.locals.installed

PollReturnsAtFirstSight ==
  JLinkPoll /\ FoundJLink(fs) # 0 /\ call.locals.elapsed < maxWaitTime
    => call'.state = "returned" /\ call'.ret = Nil

\* C19: once a silent-installer invocation has succeeded, the existence poll
\* always terminates: it checks the well-known paths every checkInterval,
\* returns success as soon as one of the binaries exists, and declares
\* failure only after the full maxWaitTime has elapsed, that is after
\* maxWaitTime / checkInterval = 30 rounds.
C19_PollTerminates ==
  /\ []PollSafe
  /\ [][PollReturnsAtFirstSight]_vars
  /\ JLinkRunning("poll") ~> JLinkReturned

\* C19 witness: the installer succeeded, no binary ever appeared, and the
\* poll gave up after 30 rounds and 60 seconds.
C19_Witness ==
  /\ JLinkExitPath = "timeout"
  /\ trace # <<>> /\ trace[Len(trace)].ok
  /\ call.locals.rounds = 30
  /\ call.locals.elapsed = 60
  /\ FoundJLink(fs) = 0

\* C20: on every exit path of the routine -- download failure, both dialects
\* failing, poll timeout, success -- the scratch directory no longer exists
\* when the routine returns.
C20_ScratchDirectoryRemoved ==
  JLinkExitPath \in {"download", "installer", "timeout", "success"}
    => ~DirExists(JLinkTempDir, fs)

\* C20 witness: the installer was downloaded into the scratch directory and
\* run from it, the poll timed out, and the directory is gone at return.
C20_Witness ==
  /\ JLinkExitPath = "timeout"
  /\ trace # <<>>
  /\ ~DirExists(JLinkTempDir, fs)

SudoRuns ==
  {i \in 1..Len(trace) : trace[i].cmd = <<"sudo", "-n", "true">>}

SudoAcquired ==
  \E i \in 1..Len(trace) : trace[i].cmd[1] = "sudo" /\ trace[i].ok

WorkersSpawned ==
  /\ platform = "darwin"
  /\ call.op = "InstallDependencies"
  /\ workers # <<>>

\* C21: on macOS the sudo credential is acquired exactly once and before the
\* concurrent phase of InstallDependencies: whenever worker tasks have been
\* spawned, ensureSudoAccess has run once in the call and succeeded.
C21_SudoAcquiredBeforeWorkers ==
  WorkersSpawned => Cardinality(SudoRuns) = 1 /\ SudoAcquired

\* No worker step acquires the privilege: while workers run, the call's
\* privilege subprocesses stay what they were at spawn time.
NoSudoWhileWorkersRun ==
  [][WorkersSpawned /\ call.state = "running" => trace' = trace]_vars

NrfutilWorkers ==
  {i \in DOMAIN workers : /\ workers[i].dep = "nrfutil"
                          /\ workers[i].pc = "done"
                          /\ "nrfutil" \notin call.spawn}

\* C22: on macOS the workers are mutually independent: what a worker does is
\* fixed by the state in which the workers were spawned, whatever the
\* interleaving.  In particular the nrfutil worker starts its install
\* exactly when uv was on the search path at spawn time, whether or not a
\* sibling uv worker has finished in the meantime.
C22_WorkersIndependentOfInterleaving ==
  WorkersSpawned =>
    \A i \in NrfutilWorkers : workers[i].ran <=> "uv" \in call.spawn

SequentialReturned ==
  /\ platform \in {"linux", "windows", "windows2"}
  /\ call.op = "InstallDependencies"
  /\ call.state = "returned"

DepOfCmd(cmd) ==
  IF cmd[1] = "curl" \/ cmd = <<"choco", "install", "uv">> THEN "uv"
  ELSE IF cmd = <<"choco", "install", "nrfjprog">> THEN "segger-jlink"
  ELSE IF cmd[1] \in {"GET", "nrfutil"} THEN "nrfutil"
  ELSE ""

InstallsOf(tr) ==
  {i \in 1..Len(tr) : DepOfCmd(tr[i].cmd) # ""}

Installs ==
  InstallsOf(trace)

Pos(dep) ==
  CHOOSE k \in 1..Len(call.deps) : call.deps[k] = dep

\* C23: on Linux and Windows InstallDependencies installs sequentially in
\* list order and returns the first error: the install subprocesses of a
\* call follow the order of the dependency list, a failed install is the
\* last subprocess of the call and its error is returned, and nil is
\* returned only if no install failed.
C23_SequentialFirstError ==
  SequentialReturned =>
    /\ \A i \in Installs : DepOfCmd(trace[i].cmd) \in Range(call.deps)
    /\ \A i, j \in Installs :
         i < j => Pos(DepOfCmd(trace[i].cmd)) <= Pos(DepOfCmd(trace[j].cmd))
    /\ \A i \in Installs :
         ~trace[i].ok =>
           /\ i = Len(trace)
           /\ call.ret # Nil
           /\ IsPrefix(<<"failed", "to", "install">>, ErrorText(call.ret))
    /\ call.ret = Nil => \A i \in Installs : trace[i].ok

\* C23 witness: on Windows uv and nrfutil were both requested and absent,
\* the uv install failed, and the call returned that error without
\* attempting nrfutil.
C23_Witness ==
  /\ SequentialReturned
  /\ platform = "windows"
  /\ call.deps = <<"uv", "nrfutil">>
  /\ trace # <<>>
  /\ trace[Len(trace)].cmd = <<"choco", "install", "uv">>
  /\ ~trace[Len(trace)].ok
  /\ ErrorText(call.ret)[4] = "uv:"
  /\ <<NrfDir, "nrfutil">> \notin fs
  /\ \A i \in Installs : DepOfCmd(trace[i].cmd) # "nrfutil"

FlashOps ==
  {"FlashBoard", "GenerateHexFile"}

Rank(op) ==
  CASE op = "CheckPrerequisites" -> 1
    [] op = "InstallPackageManager" -> 2
    [] op = "InstallDependencies" -> 3
    [] op \in FlashOps -> 4

InOrder ==
  /\ \A i, j \in 1..Len(history) :
       i < j => Rank(history[i]) < Rank(history[j])
  /\ history # <<>> => history[1] = "CheckPrerequisites"
  /\ "InstallPackageManager" \in Range(history) /\ Len(history) > 2
       => history[3] = "InstallDependencies"

FlashOnlyAfterSuccess ==
  mainPc[1] = "call" /\ mainPc[2] \in FlashOps =>
    /\ "CheckPrerequisites" \in Range(history)
    /\ call.op \in ApiOps
    /\ call.ret = Nil

PackageManagerMissing ==
  \E i \in 1..Len(call.missing) :
    call.missing[i].Name \in {"Homebrew", "Chocolatey"}

GoesToInstall ==
  /\ MainAfterCheck
  /\ mainPc'[1] = "call"

\* The order of the orchestrator's calls, the bootstrap step being taken
\* only after a check that reported the package manager missing, and the
\* flashing tool being reached only after successful earlier steps.
OrchestratorOrder ==
  /\ [](caller = "main" => InOrder /\ FlashOnlyAfterSuccess)
  /\ [][GoesToInstall /\ mainPc' = <<"call", "InstallPackageManager">>
          => PackageManagerMissing]_vars

\* C24: the orchestrator calls, in this order, CheckPrerequisites, then (only
\* if something is missing) InstallPackageManager when the platform's
\* package manager is among the missing items, then InstallDependencies,
\* then FlashBoard or GenerateHexFile; the flashing tool is never reached
\* before a successful check nor after a failed bootstrap or install.
C24_OrchestratorOrderWithBootstrap ==
  /\ [](caller = "main" => InOrder /\ FlashOnlyAfterSuccess)
  /\ [][GoesToInstall
          => (mainPc' = <<"call", "InstallPackageManager">>
                <=> PackageManagerMissing)]_vars

PresentAt(plat, dep, path, files) ==
  CASE plat = "windows" /\ dep = "nrfutil" ->
         nrfutilInstalled(path, files).found
    [] plat = "windows2" /\ dep = "segger-jlink" ->
         \E c \in JLinkCommands : commandExists(c, path, files)
    [] OTHER -> commandExists(BinaryOf(dep), path, files)

SequentialInstall ==
  \/ InstallDependenciesLinux
  \/ InstallDependenciesWindows
  \/ InstallDependenciesWindows2

InstalledDeps ==
  {d \in Range(call.deps) :
     /\ \E i \in Installs : DepOfCmd(trace[i].cmd) = d
     /\ \A i \in Installs : DepOfCmd(trace[i].cmd) = d => trace[i].ok}

\* An install procedure is run only for a dependency that was absent when
\* InstallDependencies was entered.
InstallsOnlyForAbsent ==
  /\ [](WorkersSpawned =>
          \A i \in DOMAIN workers :
            workers[i].ran => workers[i].dep \in call.absent)
  /\ [][SequentialInstall =>
          \A i \in InstallsOf(trace') :
            ~PresentAt(platform, DepOfCmd(trace'[i].cmd), PATH, fs)]_vars

NewToolsObservable ==
  /\ SequentialReturned =>
       \A d \in InstalledDeps : PresentAt(platform, d, PATH, fs)
  /\ WorkersSpawned =>
       \A i \in DOMAIN workers :
         workers[i].pc = "done" /\ workers[i].ran /\ ~workers[i].failed
           => PresentAt(platform, workers[i].dep, PATH, fs)

\* C25: InstallDependencies runs an install procedure only for dependencies
\* that are not already present, and after each install it performs the
\* search path is such that a later presence check or tool lookup of the
\* same run finds the newly installed tool.
C25_InstallOnlyAbsentThenObservable ==
  InstallsOnlyForAbsent /\ []NewToolsObservable

DarwinRunning ==
  /\ platform = "darwin"
  /\ call.op = "InstallDependencies"
  /\ call.state = "running"

Unfinished ==
  {i \in DOMAIN workers : workers[i].pc # "done"}

ChannelSafe ==
  WorkersSpawned =>
    /\ Len(errChan) <= Len(call.deps)
    /\ Len(errChan) = Cardinality(Failed)
    /\ wg = Cardinality(Unfinished)
    /\ Unfinished # {} => Len(errChan) < Len(call.deps)
    /\ call.state = "returned" => Unfinished = {}

\* C26: on macOS InstallDependencies never deadlocks and terminates once the
\* install subprocesses have exited: every worker sends at most one error,
\* the channel (capacity = number of dependencies) always has room for a
\* worker that is still running, every worker signals completion exactly
\* once, and the channel is closed (the call returns) only after all workers
\* are done.
C26_NoDeadlockAndTermination ==
  /\ []ChannelSafe
  /\ DarwinRunning ~> DarwinInstallReturned

\* C26 witness: two workers both failed, the channel was filled to its
\* capacity without blocking either, and the call returned.
C26_Witness ==
  /\ DarwinInstallReturned
  /\ Len(workers) = 2
  /\ Cardinality(Failed) = 2
  /\ Len(errChan) = 2
  /\ wg = 0
  /\ call.ret # Nil

HelperApplied ==
  call.op \in PathHelpers("darwin") \cup PathHelpers("linux")
              \cup PathHelpers("windows")
  /\ call.ret = Nil

HelperDirs ==
  CASE call.op = "setupBrewPath" ->
         {IF Stat(BrewArmBin, "brew", fs) THEN BrewArmBin ELSE BrewIntelBin}
    [] call.op = "setupChocoPath" -> {ChocoBin}
    [] call.op = "setupUVPath" ->
         {ChocoBin} \cup Set01(Stat(UvToolsDir, "uv", fs), UvToolsDir)
    [] call.op = "ensureNRFUtilPath" -> {NrfDir}
    [] call.op = "installUV" -> {CargoBin}
    [] call.op = "installJLinkFromSEGGER" -> {jlinkPaths[FoundJLink(fs)]}

IsSuffix(s, t) ==
  Len(s) <= Len(t) /\ SubSeq(t, Len(t) - Len(s) + 1, Len(t)) = s

PrependOnly ==
  /\ PathHelperOf(call.op, PATH, fs).PATH = PATH
  /\ IsSuffix(call.pathBefore, PATH)
  /\ \A d \in HelperDirs :
       Cardinality({i \in 1..Len(PATH) : PATH[i] = d}) <= 1

\* The helpers prepend their directory unless the PATH already holds it as
\* a substring: a second application changes nothing, earlier entries keep
\* their order, and no entry is duplicated.
PrependIfNotSubstring ==
  HelperApplied =>
    /\ PrependOnly
    /\ \A d \in HelperDirs : Contains(PATH, d)

\* C27: each path-setup helper has prepend-if-absent semantics: after it
\* succeeds its directory is an entry of the process PATH, a second
\* application yields the same PATH (no duplicate entry after any sequence
\* of calls), and the pre-existing entries keep their relative order.
C27_PrependIfAbsent ==
  HelperApplied =>
    /\ PrependOnly
    /\ HelperDirs \subseteq Range(PATH)

BoardDependencyLists ==
  {GetDependencies(AvailableBoards[b]) : b \in 1..Len(AvailableBoards)}

BinariesOf(dep) ==
  IF dep = "segger-jlink" THEN JLinkCommands ELSE {dep}

ActuallyPresent(dep) ==
  \E f \in fs : f[2] \in BinariesOf(dep)

\* C28: on every platform, when CheckPrerequisites returns no error and an
\* empty missing list for the dependency list of a board, every dependency
\* named in the list is present: the check skips no required name.
C28_CleanCheckMeansAllPresent ==
  /\ CheckReturned
  /\ call.deps \in BoardDependencyLists
  /\ call.ret = Nil
  /\ call.missing = <<>>
  => \A d \in Range(call.deps) : ActuallyPresent(d)

ChocoInstallAt(tr, i) ==
  /\ Len(tr[i].cmd) = 3
  /\ tr[i].cmd[1] = "choco"
  /\ tr[i].cmd[2] = "install"

RanBefore(tr, i, cmd) ==
  \E j \in 1..(i - 1) : tr[j].cmd = cmd /\ tr[j].ok

RanFailing(tr, cmd) ==
  \E j \in 1..Len(tr) : tr[j].cmd = cmd /\ ~tr[j].ok

BootstrapErrors ==
  {InstallPackageManagerOf(platform, PATH, fs, pmFunctional, isAdmin, o).ret :
     o \in PmOracles(platform)} \ {Nil}

\* A step from a state where InstallDependencies can be called to one whose
\* current call is InstallDependencies is a step of that method.
WindowsInstallCall ==
  /\ IsWindows(platform)
  /\ CanCall("InstallDependencies")
  /\ call'.op = "InstallDependencies"

DarwinInstallCall ==
  /\ platform = "darwin"
  /\ CanCall("InstallDependencies")
  /\ call'.op = "InstallDependencies"

WindowsInstallGuarded ==
  LET atEntry == commandExists("choco", PATH, fs)
      tr == trace'
      bootstrapped ==
        \E j \in 1..Len(tr) : tr[j].cmd = <<"choco", "--version">> /\ tr[j].ok
  IN /\ \A i \in 1..Len(tr) :
          ChocoInstallAt(tr, i) =>
            atEntry \/ RanBefore(tr, i, <<"choco", "--version">>)
     /\ \A i \in InstallsOf(tr) : RanBefore(tr, i, <<"net", "session">>)
     /\ ~atEntry /\ ~bootstrapped =>
          /\ call'.ret \in BootstrapErrors
          /\ InstallsOf(tr) = {}
     /\ RanFailing(tr, <<"net", "session">>) =>
          /\ call'.ret = ensureAdminAccess(FALSE).err
          /\ InstallsOf(tr) = {}

DarwinInstallGuarded ==
  LET atEntry == commandExists("brew", PATH, fs)
      bootstrapped ==
        \E j \in 1..Len(trace') :
          trace'[j].cmd = <<"brew", "--version">> /\ trace'[j].ok
  IN IF atEntry \/ bootstrapped
     THEN "brew" \in call'.spawn
     ELSE /\ call'.state = "returned"
          /\ call'.ret \in BootstrapErrors
          /\ workers' = <<>>

BrewWorkers ==
  {i \in DOMAIN workers : workers[i].dep \in {"uv", "segger-jlink"}}

BrewInstallsGuarded ==
  platform = "darwin" /\ call.op = "InstallDependencies" =>
    \A i \in BrewWorkers : workers[i].ran => "brew" \in call.spawn

\* C29: on macOS and Windows no brew or choco install is spawned within
\* InstallDependencies unless the package manager was present at entry or
\* was bootstrapped successfully earlier in the same call; on Windows no
\* dependency install starts before a successful administrator check; and
\* when the bootstrap or the administrator check fails the call returns
\* that error with no dependency install attempted.
C29_InstallsGuardedByBootstrapAndAdmin ==
  /\ [][WindowsInstallCall => WindowsInstallGuarded]_vars
  /\ [][DarwinInstallCall => DarwinInstallGuarded]_vars
  /\ []BrewInstallsGuarded

C29_Witness ==
  /\ platform = "windows"
  /\ call.op = "InstallDependencies"
  /\ call.state = "returned"
  /\ \E j \in 1..Len(trace) :
       /\ trace[j].cmd = <<"choco", "--version">>
       /\ trace[j].ok
       /\ \E i \in (j + 1)..Len(trace) : ChocoInstallAt(trace, i)

FlashCalls ==
  {i \in 1..Len(history) : history[i] \in FlashOps}

SelectedIsJLink ==
  AvailableBoards[board].FlashMethod = "jlink"

OneFlashOpForTheBoard ==
  caller = "main" =>
    /\ Cardinality(FlashCalls) <= 1
    /\ "FlashBoard" \in Range(history) => SelectedIsJLink
    /\ "GenerateHexFile" \in Range(history) => ~SelectedIsJLink

DeclinesInstall ==
  /\ caller = "main"
  /\ mainPc = <<"after", "CheckPrerequisites">>
  /\ call.ret = Nil
  /\ call.missing # <<>>
  /\ mainPc'[1] = "exited"

DeclinesFinalPrompt ==
  /\ caller = "main"
  /\ mainPc = <<"validate">>
  /\ mainPc' = <<"exited", "PrintWarning">>

NothingAfterExit ==
  ~Exited

\* C30: in a run of main at most one of FlashBoard and GenerateHexFile is
\* invoked, at most once, FlashBoard only for a J-Link board and
\* GenerateHexFile only for the others; when the user declines the
\* dependency install the process exits 1 with no install, flash or hex
\* generation performed; when the user declines the final prompt the
\* process exits 0 with neither FlashBoard nor GenerateHexFile invoked.
C30_OneFlashOpAndDeclinesExit ==
  /\ []OneFlashOpForTheBoard
  /\ [][DeclinesInstall =>
          /\ exitCode' = 1
          /\ history' = <<"CheckPrerequisites">>
          /\ UNCHANGED <<PATH, fs, trace>>]_vars
  /\ [][DeclinesFinalPrompt =>
          /\ exitCode' = 0
          /\ history' = history
          /\ FlashCalls = {}]_vars
  /\ [][NothingAfterExit]_vars

C30_Witness ==
  /\ caller = "main"
  /\ ~SelectedIsJLink
  /\ "InstallDependencies" \in Range(history)
  /\ history[Len(history)] = "GenerateHexFile"
  /\ mainPc = <<"exited", "PrintCompletionBanner">>

====
